---- MODULE Spec2Model ----
(***************************************************************************)
(* Ken Burns video generator (src/generation/video_generator.py), with the  *)
(* worker thread that narrates the snippets and calls it                   *)
(* (src/gui/main_window.py, src/audio/tts_handler.py), and the editor      *)
(* window that holds the snippets and starts the worker                    *)
(* (src/gui/main_window.py, src/gui/custom_widgets.py).                    *)
(*                                                                         *)
(* Times are kept in integer milliseconds, frames are integers, and every  *)
(* Python float that is a zoom level is kept as an exact fraction          *)
(* [n |-> numerator, d |-> denominator] with d > 0.  Float rounding error  *)
(* of the IEEE doubles themselves is not modelled.                         *)
(***************************************************************************)
EXTENDS Integers, Sequences, FiniteSets, TLC

VARIABLES
    canvas_snippets,  \* ImageCanvas.snippets
    selected_snippet_idx, \* ImageCanvas.selected_snippet_idx (-1: none)
    snip_mode,        \* ImageCanvas.snip_mode, the state of btn_snip
    image_loaded,     \* MainWindow.current_image_path names a loaded image
    snippet_widgets,  \* MainWindow.snippet_widgets
    pending_snippets, \* MainWindow.pending_snippets
    selected_pending_idx, \* MainWindow.selected_pending_idx (-1: None)
    btn_generate_enabled, \* MainWindow.btn_generate.isEnabled()
    unhandled_workers, \* workers started whose result is not yet handled
    args,             \* the arguments of the call under analysis
    pc,               \* position of the call: idle, started, worker, init,
                      \* ready, raised, encoding, done, finished
    worker_snippets,  \* VideoGeneratorWorker.snippets (<< >>: no worker)
    snippets_with_audio, \* the list run() builds, one dict per snippet
    tts_log,          \* the requests sent to the narration service
    finished_signals, \* the (success, message) pairs emitted by "finished"
    image_width,      \* KenBurnsGenerator.image_width
    image_height,     \* KenBurnsGenerator.image_height
    fps,              \* KenBurnsGenerator.fps
    intro_duration,   \* KenBurnsGenerator.intro_duration   (ms)
    snippet_duration, \* KenBurnsGenerator.snippet_duration (ms)
    hold_duration,    \* KenBurnsGenerator.hold_duration    (ms)
    outro_duration,   \* KenBurnsGenerator.outro_duration   (ms)
    min_zoom,         \* KenBurnsGenerator.min_zoom
    max_zoom,         \* KenBurnsGenerator.max_zoom
    show_boxes,       \* KenBurnsGenerator.show_boxes
    ken_burns,        \* KenBurnsGenerator.ken_burns
    snippets,         \* KenBurnsGenerator.snippets
    sub_images,       \* KenBurnsGenerator.sub_images
    keyframes,        \* KenBurnsGenerator.keyframes
    cmd,              \* the command built by build_ffmpeg_command
    encoder_calls,    \* number of times generate() started the encoder
    encoder_exit,     \* how the encoder ended and what it reported
    error,            \* exception that left the call, "" if none
    result            \* the (success, message) pair returned by generate()

worker_vars ==
    <<worker_snippets, snippets_with_audio, tts_log, finished_signals>>

gui_vars ==
    <<canvas_snippets, selected_snippet_idx, snip_mode, image_loaded,
      snippet_widgets, pending_snippets, selected_pending_idx,
      btn_generate_enabled, unhandled_workers>>

vars == <<gui_vars, args, pc, worker_snippets, snippets_with_audio, tts_log,
          finished_signals, image_width, image_height, fps, intro_duration,
          snippet_duration, hold_duration, outro_duration, min_zoom,
          max_zoom, show_boxes, ken_burns, snippets, sub_images, keyframes,
          cmd, encoder_calls, encoder_exit, error, result>>

----------------------------------------------------------------------------
(* Bounds of the explored input space *)

MaxFps == 2
MaxHalfSeconds == 2
MaxSnippets == 2
MaxSubImages == 1
MaxImage == 4
MaxRegion == 2

\* Longest segment, in frames, over which the eased values are compared
MaxEasedFrames == 30

(* Program constants *)

MsPerSecond == 1000
DefaultFps == 30
DefaultIntroMs == 2000
DefaultSnippetMs == 3000
DefaultHoldMs == 1000
DefaultOutroMs == 2000
FallbackWidth == 1920
FallbackHeight == 1080

----------------------------------------------------------------------------
(* Exact fractions standing for Python floats *)

Abs(v) == IF v < 0 THEN -v ELSE v

Max(a, b) == IF a >= b THEN a ELSE b

RECURSIVE Gcd(_, _)
Gcd(a, b) == IF b = 0 THEN a ELSE Gcd(b, a % b)

\* n / d for d # 0, in lowest terms with a positive denominator
Rat(n, d) ==
    LET g == Gcd(Abs(n), Abs(d))
        s == IF d < 0 THEN -1 ELSE 1
    IN  [n |-> (s * n) \div g, d |-> (s * d) \div g]

RatLeq(a, b) == a.n * b.d <= b.n * a.d

RatMin(a, b) == IF RatLeq(a, b) THEN a ELSE b

RatMax(a, b) == IF RatLeq(b, a) THEN a ELSE b

RatAdd(a, b) == Rat(a.n * b.d + b.n * a.d, a.d * b.d)

RatSub(a, b) == Rat(a.n * b.d - b.n * a.d, a.d * b.d)

RatMul(a, b) == Rat(a.n * b.n, a.d * b.d)

One == Rat(1, 1)

DefaultMinZoom == Rat(1, 1)

DefaultMaxZoom == Rat(4, 1)

\* padding_factor = 0.8
PaddingFactor == Rat(4, 5)

\* int(seconds * rate) for a duration of ms milliseconds: Python's int()
\* truncates toward zero
IntOfProduct(ms, rate) ==
    IF ms * rate >= 0 THEN (ms * rate) \div MsPerSecond
    ELSE -((-(ms * rate)) \div MsPerSecond)

----------------------------------------------------------------------------
(* KenBurnsGenerator: zoom solver and keyframe timeline *)

\* The object's fields as one record, for the operators below
Self ==
    [image_width |-> image_width, image_height |-> image_height,
     fps |-> fps, intro_duration |-> intro_duration,
     snippet_duration |-> snippet_duration, hold_duration |-> hold_duration,
     outro_duration |-> outro_duration, min_zoom |-> min_zoom,
     max_zoom |-> max_zoom, show_boxes |-> show_boxes,
     snippets |-> snippets, sub_images |-> sub_images]

Keyframe(frame, zoom, center_x, center_y) ==
    [frame |-> frame, zoom |-> zoom, center_x |-> center_x,
     center_y |-> center_y]

\* The divisions of _calculate_zoom_for_snippet raise ZeroDivisionError
ZoomRaises(snippet) == snippet.width = 0 \/ snippet.height = 0

\* Fault variant: the upper clamp "min(self.max_zoom, zoom)" left out
CalculateZoomForSnippet_NoUpperClamp(snippet, self) ==
    LET padded_w == RatMul(Rat(self.image_width, 1), PaddingFactor)
        zoom_x == Rat(padded_w.n, padded_w.d * snippet.width)
        padded_h == RatMul(Rat(self.image_height, 1), PaddingFactor)
        zoom_y == Rat(padded_h.n, padded_h.d * snippet.height)
        zoom == RatMin(zoom_x, zoom_y)
    IN  RatMax(self.min_zoom, zoom)

CalculateZoomForSnippet(snippet, self) ==
    LET padded_w == RatMul(Rat(self.image_width, 1), PaddingFactor)
        zoom_x == Rat(padded_w.n, padded_w.d * snippet.width)
        padded_h == RatMul(Rat(self.image_height, 1), PaddingFactor)
        zoom_y == Rat(padded_h.n, padded_h.d * snippet.height)
        zoom == RatMin(zoom_x, zoom_y)
    IN  RatMax(self.min_zoom, RatMin(self.max_zoom, zoom))

\* Fault variant: the hold lasts the narration only, without the hold floor
RECURSIVE SnippetKeyframes_NoHoldFloor(_, _, _)
SnippetKeyframes_NoHoldFloor(self, i, current_frame) ==
    IF i > Len(self.snippets) THEN << >>
    ELSE
        LET snippet == self.snippets[i]
            snippet_center_x == snippet.x + (snippet.width \div 2)
            snippet_center_y == snippet.y + (snippet.height \div 2)
            snippet_zoom == CalculateZoomForSnippet(snippet, self)
            travel_frame == current_frame
                            + IntOfProduct(self.snippet_duration, self.fps)
            hold_frame == travel_frame
                          + IntOfProduct(snippet.audio_duration, self.fps)
        IN  << Keyframe(travel_frame, snippet_zoom, snippet_center_x,
                        snippet_center_y),
               Keyframe(hold_frame, snippet_zoom, snippet_center_x,
                        snippet_center_y) >>
            \o SnippetKeyframes_NoHoldFloor(self, i + 1, hold_frame)

\* The loop "for snippet in self.snippets" of _calculate_keyframes, from
\* the i-th snippet on, entered with the running frame counter current_frame
RECURSIVE SnippetKeyframes(_, _, _)
SnippetKeyframes(self, i, current_frame) ==
    IF i > Len(self.snippets) THEN << >>
    ELSE
        LET snippet == self.snippets[i]
            snippet_center_x == snippet.x + (snippet.width \div 2)
            snippet_center_y == snippet.y + (snippet.height \div 2)
            snippet_zoom == CalculateZoomForSnippet(snippet, self)
            travel_frame == current_frame
                            + IntOfProduct(self.snippet_duration, self.fps)
            duration == Max(snippet.audio_duration, self.hold_duration)
            hold_frame == travel_frame + IntOfProduct(duration, self.fps)
        IN  << Keyframe(travel_frame, snippet_zoom, snippet_center_x,
                        snippet_center_y),
               Keyframe(hold_frame, snippet_zoom, snippet_center_x,
                        snippet_center_y) >>
            \o SnippetKeyframes(self, i + 1, hold_frame)

\* Fault variant: the end-of-intro keyframe is not appended
CalculateKeyframes_NoIntroEnd(self) ==
    LET img_center_x == self.image_width \div 2
        img_center_y == self.image_height \div 2
        intro_end == IntOfProduct(self.intro_duration, self.fps)
        body == SnippetKeyframes(self, 1, intro_end)
        last_frame == IF body = << >> THEN intro_end
                      ELSE body[Len(body)].frame
        outro_end == last_frame + IntOfProduct(self.outro_duration, self.fps)
    IN  << Keyframe(0, One, img_center_x, img_center_y) >> \o body
        \o << Keyframe(outro_end, One, img_center_x, img_center_y) >>

\* Fault variant: the outro keyframe stays on the last snippet instead of
\* returning to the overview
CalculateKeyframes_NoOverviewOutro(self) ==
    LET img_center_x == self.image_width \div 2
        img_center_y == self.image_height \div 2
        intro_end == IntOfProduct(self.intro_duration, self.fps)
        head == << Keyframe(0, One, img_center_x, img_center_y),
                   Keyframe(intro_end, One, img_center_x, img_center_y) >>
        body == SnippetKeyframes(self, 1, intro_end)
        last == (head \o body)[Len(head \o body)]
        outro_end == last.frame + IntOfProduct(self.outro_duration, self.fps)
    IN  head \o body
        \o << Keyframe(outro_end, last.zoom, last.center_x, last.center_y) >>

CalculateKeyframes(self) ==
    LET img_center_x == self.image_width \div 2
        img_center_y == self.image_height \div 2
        intro_end == IntOfProduct(self.intro_duration, self.fps)
        head == << Keyframe(0, One, img_center_x, img_center_y),
                   Keyframe(intro_end, One, img_center_x, img_center_y) >>
        body == SnippetKeyframes(self, 1, intro_end)
        last_frame == IF body = << >> THEN intro_end
                      ELSE body[Len(body)].frame
        outro_end == last_frame + IntOfProduct(self.outro_duration, self.fps)
    IN  head \o body
        \o << Keyframe(outro_end, One, img_center_x, img_center_y) >>

KeyframesRaise(snips) == \E i \in 1..Len(snips) : ZoomRaises(snips[i])

----------------------------------------------------------------------------
(* The zoompan expression of _build_zoom_expression, by its value *)

\* Fault variant: (t)*(t)*(3-(t)), which reaches 2 at t = 1
EaseInOut_Overshoot(t) ==
    RatMul(RatMul(t, t), RatSub(Rat(3, 1), t))

\* Fault variant: (t)*(3-2*(t)), which rises above 1 and falls back
EaseInOut_Unsquared(t) ==
    RatMul(t, RatSub(Rat(3, 1), RatMul(Rat(2, 1), t)))

\* _ease_in_out_expression: (t)*(t)*(3-2*(t))
EaseInOut(t) ==
    RatMul(RatMul(t, t), RatSub(Rat(3, 1), RatMul(Rat(2, 1), t)))

\* Fault variant: the interpolation runs from kf2 back to kf1
RECURSIVE ZoomParts_Reversed(_, _, _)
ZoomParts_Reversed(kfs, i, on) ==
    IF i > Len(kfs) - 1 THEN kfs[Len(kfs)].zoom
    ELSE
        LET kf1 == kfs[i]
            kf2 == kfs[i + 1]
            frame_diff == kf2.frame - kf1.frame
        IN  IF frame_diff = 0 THEN ZoomParts_Reversed(kfs, i + 1, on)
            ELSE
                LET progress == Rat(on - kf1.frame, frame_diff)
                    eased_progress == EaseInOut(progress)
                    lerp == RatAdd(kf2.zoom,
                                   RatMul(RatSub(kf1.zoom, kf2.zoom),
                                          eased_progress))
                    condition == IF i = 1 THEN on < kf2.frame
                                 ELSE kf1.frame <= on /\ on <= kf2.frame
                IN  IF condition THEN lerp
                    ELSE ZoomParts_Reversed(kfs, i + 1, on)

\* Fault variant: the last part has no upper end, so the last segment is
\* extrapolated
RECURSIVE ZoomParts_Extrapolated(_, _, _)
ZoomParts_Extrapolated(kfs, i, on) ==
    IF i > Len(kfs) - 1 THEN kfs[Len(kfs)].zoom
    ELSE
        LET kf1 == kfs[i]
            kf2 == kfs[i + 1]
            frame_diff == kf2.frame - kf1.frame
        IN  IF frame_diff = 0 THEN ZoomParts_Extrapolated(kfs, i + 1, on)
            ELSE
                LET progress == Rat(on - kf1.frame, frame_diff)
                    eased_progress == EaseInOut(progress)
                    lerp == RatAdd(kf1.zoom,
                                   RatMul(RatSub(kf2.zoom, kf1.zoom),
                                          eased_progress))
                    condition == IF i = Len(kfs) - 1 THEN kf1.frame <= on
                                 ELSE IF i = 1 THEN on < kf2.frame
                                 ELSE kf1.frame <= on /\ on <= kf2.frame
                IN  IF condition THEN lerp
                    ELSE ZoomParts_Extrapolated(kfs, i + 1, on)

\* The nested if(...) chain from the i-th keyframe pair on, at output frame on
RECURSIVE ZoomParts(_, _, _)
ZoomParts(kfs, i, on) ==
    IF i > Len(kfs) - 1 THEN kfs[Len(kfs)].zoom
    ELSE
        LET kf1 == kfs[i]
            kf2 == kfs[i + 1]
            frame_diff == kf2.frame - kf1.frame
        IN  IF frame_diff = 0 THEN ZoomParts(kfs, i + 1, on)
            ELSE
                LET progress == Rat(on - kf1.frame, frame_diff)
                    eased_progress == EaseInOut(progress)
                    lerp == RatAdd(kf1.zoom,
                                   RatMul(RatSub(kf2.zoom, kf1.zoom),
                                          eased_progress))
                    condition == IF i = 1 THEN on < kf2.frame
                                 ELSE kf1.frame <= on /\ on <= kf2.frame
                IN  IF condition THEN lerp ELSE ZoomParts(kfs, i + 1, on)

\* Fault variant: zero-length pairs are not skipped
RECURSIVE SelectedPart_NoSkip(_, _, _)
SelectedPart_NoSkip(kfs, i, on) ==
    IF i > Len(kfs) - 1 THEN 0
    ELSE
        LET kf1 == kfs[i]
            kf2 == kfs[i + 1]
            condition == IF i = 1 THEN on < kf2.frame
                         ELSE kf1.frame <= on /\ on <= kf2.frame
        IN  IF condition THEN i
            ELSE SelectedPart_NoSkip(kfs, i + 1, on)

\* The part of the chain whose condition is the first to hold at output
\* frame on, from the i-th keyframe pair on: its index, or 0 when the chain
\* falls through to the final value
RECURSIVE SelectedPart(_, _, _)
SelectedPart(kfs, i, on) ==
    IF i > Len(kfs) - 1 THEN 0
    ELSE
        LET kf1 == kfs[i]
            kf2 == kfs[i + 1]
            frame_diff == kf2.frame - kf1.frame
            condition == IF i = 1 THEN on < kf2.frame
                         ELSE kf1.frame <= on /\ on <= kf2.frame
        IN  IF frame_diff # 0 /\ condition THEN i
            ELSE SelectedPart(kfs, i + 1, on)

\* progress = (on - kf1.frame) / frame_diff of the i-th part
Progress(kfs, i, on) ==
    Rat(on - kfs[i].frame, kfs[i + 1].frame - kfs[i].frame)

ZoomExpression(kfs, on) ==
    IF Len(kfs) < 2 THEN One ELSE ZoomParts(kfs, 1, on)

\* Fault variant: the center is interpolated from kf2 back to kf1
RECURSIVE CenterParts_Reversed(_, _, _, _)
CenterParts_Reversed(kfs, i, on, field) ==
    IF i > Len(kfs) - 1 THEN Rat(kfs[Len(kfs)][field], 1)
    ELSE
        LET kf1 == kfs[i]
            kf2 == kfs[i + 1]
            frame_diff == kf2.frame - kf1.frame
        IN  IF frame_diff = 0 THEN CenterParts_Reversed(kfs, i + 1, on, field)
            ELSE
                LET progress == Rat(on - kf1.frame, frame_diff)
                    eased_progress == EaseInOut(progress)
                    lerp == RatAdd(Rat(kf2[field], 1),
                                   RatMul(Rat(kf1[field] - kf2[field], 1),
                                          eased_progress))
                    condition == IF i = 1 THEN on < kf2.frame
                                 ELSE kf1.frame <= on /\ on <= kf2.frame
                IN  IF condition THEN lerp
                    ELSE CenterParts_Reversed(kfs, i + 1, on, field)

\* The interpolated center of _build_x_expression (field "center_x") and
\* _build_y_expression (field "center_y"): the if(...) chain from the i-th
\* keyframe pair on, before the viewport offset is subtracted
RECURSIVE CenterParts(_, _, _, _)
CenterParts(kfs, i, on, field) ==
    IF i > Len(kfs) - 1 THEN Rat(kfs[Len(kfs)][field], 1)
    ELSE
        LET kf1 == kfs[i]
            kf2 == kfs[i + 1]
            frame_diff == kf2.frame - kf1.frame
        IN  IF frame_diff = 0 THEN CenterParts(kfs, i + 1, on, field)
            ELSE
                LET progress == Rat(on - kf1.frame, frame_diff)
                    eased_progress == EaseInOut(progress)
                    lerp == RatAdd(Rat(kf1[field], 1),
                                   RatMul(Rat(kf2[field] - kf1[field], 1),
                                          eased_progress))
                    condition == IF i = 1 THEN on < kf2.frame
                                 ELSE kf1.frame <= on /\ on <= kf2.frame
                IN  IF condition THEN lerp
                    ELSE CenterParts(kfs, i + 1, on, field)

\* (iw/zoom)/2 and (ih/zoom)/2: half the visible width or height
HalfVisible(size, zoom) == Rat(size * zoom.d, 2 * zoom.n)

\* _build_x_expression: the left edge of the crop at output frame on; "zoom"
\* in the expression is the value the z expression has for that frame
XExpression(kfs, on, iw) ==
    LET zoom == ZoomExpression(kfs, on)
    IN  IF Len(kfs) < 2
        THEN RatSub(Rat(iw, 2), HalfVisible(iw, zoom))
        ELSE RatSub(CenterParts(kfs, 1, on, "center_x"),
                    HalfVisible(iw, zoom))

\* _build_y_expression: the top edge of the crop at output frame on
YExpression(kfs, on, ih) ==
    LET zoom == ZoomExpression(kfs, on)
    IN  IF Len(kfs) < 2
        THEN RatSub(Rat(ih, 2), HalfVisible(ih, zoom))
        ELSE RatSub(CenterParts(kfs, 1, on, "center_y"),
                    HalfVisible(ih, zoom))

----------------------------------------------------------------------------
(* build_ffmpeg_command: the audio schedule *)

\* Fault variant: the clip is delayed to the start of the move (move_start)
\* instead of the start of the hold
RECURSIVE SnippetAudio_AtMoveStart(_, _, _, _)
SnippetAudio_AtMoveStart(self, i, current_time, audio_input_count) ==
    IF i > Len(self.snippets) THEN << >>
    ELSE
        LET snippet == self.snippets[i]
            move_start == current_time
            move_end == current_time + self.snippet_duration
            hold_dur == Max(snippet.audio_duration, self.hold_duration)
            hold_end == move_end + hold_dur
            accepted == snippet.audio_path = "exists"
            input_idx == audio_input_count + 1
        IN  IF accepted
            THEN << [snippet |-> i, input_idx |-> input_idx,
                     delay_ms |-> IntOfProduct(move_start, MsPerSecond)] >>
                 \o SnippetAudio_AtMoveStart(self, i + 1, hold_end, input_idx)
            ELSE SnippetAudio_AtMoveStart(self, i + 1, hold_end,
                                          audio_input_count)

\* The loop "for i, snippet in enumerate(self.snippets)", from the i-th
\* snippet on (1-based here, label a{i-1} in the code)
RECURSIVE SnippetAudio(_, _, _, _)
SnippetAudio(self, i, current_time, audio_input_count) ==
    IF i > Len(self.snippets) THEN << >>
    ELSE
        LET snippet == self.snippets[i]
            move_end == current_time + self.snippet_duration
            hold_dur == Max(snippet.audio_duration, self.hold_duration)
            hold_start == move_end
            hold_end == hold_start + hold_dur
            accepted == snippet.audio_path = "exists"
            input_idx == audio_input_count + 1
        IN  IF accepted
            THEN << [snippet |-> i, input_idx |-> input_idx,
                     delay_ms |-> IntOfProduct(hold_start, MsPerSecond)] >>
                 \o SnippetAudio(self, i + 1, hold_end, input_idx)
            ELSE SnippetAudio(self, i + 1, hold_end, audio_input_count)

\* "Find the end time of the referenced snip": the intro plus travel and hold
\* of the first min(after_snip + 1, len(snippets)) snippets, from the i-th on
RECURSIVE SubStartTime(_, _, _)
SubStartTime(self, after_snip, i) ==
    IF i > after_snip + 1 \/ i > Len(self.snippets) THEN 0
    ELSE self.snippet_duration
         + Max(self.snippets[i].audio_duration, self.hold_duration)
         + SubStartTime(self, after_snip, i + 1)

\* Fault variant: the clip is taken whenever a path is given, without the
\* os.path.exists check
RECURSIVE SubImageAudio_Unchecked(_, _, _)
SubImageAudio_Unchecked(self, idx, audio_input_count) ==
    IF idx > Len(self.sub_images) THEN << >>
    ELSE
        LET sub_img == self.sub_images[idx]
            sub_start_time == self.intro_duration
                              + SubStartTime(self, sub_img.after_snip, 1)
            accepted == sub_img.audio_path # "none"
            input_idx == audio_input_count + 1
        IN  IF accepted
            THEN << [sub_image |-> idx, input_idx |-> input_idx,
                     delay_ms |-> IntOfProduct(sub_start_time, MsPerSecond)] >>
                 \o SubImageAudio_Unchecked(self, idx + 1, input_idx)
            ELSE SubImageAudio_Unchecked(self, idx + 1, audio_input_count)

\* "First pass: collect all sub-image audio", from the idx-th sub-image on
\* (1-based here, label sa{idx-1} in the code)
RECURSIVE SubImageAudio(_, _, _)
SubImageAudio(self, idx, audio_input_count) ==
    IF idx > Len(self.sub_images) THEN << >>
    ELSE
        LET sub_img == self.sub_images[idx]
            sub_start_time == self.intro_duration
                              + SubStartTime(self, sub_img.after_snip, 1)
            accepted == sub_img.audio_path = "exists"
            input_idx == audio_input_count + 1
        IN  IF accepted
            THEN << [sub_image |-> idx, input_idx |-> input_idx,
                     delay_ms |-> IntOfProduct(sub_start_time, MsPerSecond)] >>
                 \o SubImageAudio(self, idx + 1, input_idx)
            ELSE SubImageAudio(self, idx + 1, audio_input_count)

\* A duration of ms milliseconds in seconds
Seconds(ms) == Rat(ms, MsPerSecond)

\* The format specification ":.2f" for a time r >= 0 in seconds: the number
\* of hundredths nearest to r.  Python rounds the exact binary value of the
\* float, which for a value exactly halfway between two hundredths (0.125)
\* goes to the even one; no time of the inputs below lies halfway.
Format2f(r) ==
    LET hundredths == (r.n * 100) \div r.d
        twice_rest == 2 * ((r.n * 100) % r.d)
    IN  IF twice_rest > r.d THEN hundredths + 1
        ELSE IF twice_rest < r.d THEN hundredths
        ELSE IF hundredths % 2 = 0 THEN hundredths
        ELSE hundredths + 1

\* Fault variant: the outline is enabled from the start of the move
RECURSIVE DrawboxFilters_FromMoveStart(_, _, _)
DrawboxFilters_FromMoveStart(self, i, current_time) ==
    IF i > Len(self.snippets) THEN << >>
    ELSE
        LET snippet == self.snippets[i]
            move_start == current_time
            move_end == current_time + self.snippet_duration
            hold_dur == Max(snippet.audio_duration, self.hold_duration)
            hold_end == move_end + hold_dur
        IN  (IF self.show_boxes
             THEN << [snippet |-> i, x |-> snippet.x, y |-> snippet.y,
                      w |-> snippet.width, h |-> snippet.height,
                      enable |-> <<Format2f(Seconds(move_start)),
                                   Format2f(Seconds(hold_end))>>] >>
             ELSE << >>)
            \o DrawboxFilters_FromMoveStart(self, i + 1, hold_end)

\* The drawbox filters of the loop "for i, snippet in enumerate(
\* self.snippets)", from the i-th snippet on: the rectangle and the two
\* times, in hundredths of a second, of enable='between(t,...,...)'
RECURSIVE DrawboxFilters(_, _, _)
DrawboxFilters(self, i, current_time) ==
    IF i > Len(self.snippets) THEN << >>
    ELSE
        LET snippet == self.snippets[i]
            move_end == current_time + self.snippet_duration
            hold_dur == Max(snippet.audio_duration, self.hold_duration)
            hold_start == move_end
            hold_end == hold_start + hold_dur
        IN  (IF self.show_boxes
             THEN << [snippet |-> i, x |-> snippet.x, y |-> snippet.y,
                      w |-> snippet.width, h |-> snippet.height,
                      enable |-> <<Format2f(Seconds(hold_start)),
                                   Format2f(Seconds(hold_end))>>] >>
             ELSE << >>)
            \o DrawboxFilters(self, i + 1, hold_end)

\* max(sub_audio_dur, 2.0): how long an overlay that is not persistent stays
MinOverlayMs == 2000

\* Fault variant: the overlay inputs are numbered from the audio inputs of
\* the snippets alone
RECURSIVE SubImageOverlays_Shifted(_, _, _, _, _)
SubImageOverlays_Shifted(self, idx, start_idx, accepted_before, video_duration) ==
    IF idx > Len(self.sub_images) THEN << >>
    ELSE
        LET sub_img == self.sub_images[idx]
            sub_start_time == self.intro_duration
                              + SubStartTime(self, sub_img.after_snip, 1)
            sub_end_time ==
                IF sub_img.persistent THEN video_duration
                ELSE Seconds(sub_start_time
                             + Max(sub_img.audio_duration, MinOverlayMs))
            accepted == sub_img.image_path = "exists"
            img_input_idx ==
                Len(SnippetAudio(self, 1, self.intro_duration, 0)) + 1
                + accepted_before
        IN  IF accepted
            THEN << [sub_image |-> idx, input_idx |-> img_input_idx,
                     start |-> Seconds(sub_start_time),
                     end |-> sub_end_time,
                     enable |-> <<Format2f(Seconds(sub_start_time)),
                                  Format2f(sub_end_time)>>] >>
                 \o SubImageOverlays_Shifted(self, idx + 1, start_idx,
                                             accepted_before + 1,
                                             video_duration)
            ELSE SubImageOverlays_Shifted(self, idx + 1, start_idx,
                                          accepted_before, video_duration)

\* "Second pass: collect all sub-image video inputs", from the idx-th
\* sub-image on, and the overlay filter made of each entry: its input, its
\* window in seconds and the two times of enable='between(t,...,...)' in
\* hundredths.  accepted_before is len(sub_image_inputs) // 2.
RECURSIVE SubImageOverlays(_, _, _, _, _)
SubImageOverlays(self, idx, start_idx, accepted_before, video_duration) ==
    IF idx > Len(self.sub_images) THEN << >>
    ELSE
        LET sub_img == self.sub_images[idx]
            sub_start_time == self.intro_duration
                              + SubStartTime(self, sub_img.after_snip, 1)
            sub_end_time ==
                IF sub_img.persistent THEN video_duration
                ELSE Seconds(sub_start_time
                             + Max(sub_img.audio_duration, MinOverlayMs))
            accepted == sub_img.image_path = "exists"
            img_input_idx == start_idx + accepted_before
        IN  IF accepted
            THEN << [sub_image |-> idx, input_idx |-> img_input_idx,
                     start |-> Seconds(sub_start_time),
                     end |-> sub_end_time,
                     enable |-> <<Format2f(Seconds(sub_start_time)),
                                  Format2f(sub_end_time)>>] >>
                 \o SubImageOverlays(self, idx + 1, start_idx,
                                     accepted_before + 1, video_duration)
            ELSE SubImageOverlays(self, idx + 1, start_idx, accepted_before,
                                  video_duration)

\* The command, by the parts the properties speak about: the drawbox
\* filters, the adelay entries of the snippets and of the sub-images, the
\* overlay filters, the files given with -i in their order (input 0 first),
\* the labels fed to amix in their order, the mapped output streams, and the
\* frame count and duration behind -t
BuildFfmpegCommand(self, kfs) ==
    LET drawbox == DrawboxFilters(self, 1, self.intro_duration)
        audio == SnippetAudio(self, 1, self.intro_duration, 0)
        sub_image_audio == SubImageAudio(self, 1, Len(audio))
        audio_input_count == Len(audio) + Len(sub_image_audio)
        video_duration ==
            IF kfs = << >> THEN One ELSE Rat(kfs[Len(kfs)].frame, self.fps)
        sub_image_input_start_idx == audio_input_count + 1
        sub_image_overlays ==
            SubImageOverlays(self, 1, sub_image_input_start_idx, 0,
                             video_duration)
        audio_inputs ==
            [k \in 1..Len(audio) |->
                <<"snippets", audio[k].snippet, "audio_path">>]
            \o [k \in 1..Len(sub_image_audio) |->
                   <<"sub_images", sub_image_audio[k].sub_image,
                     "audio_path">>]
        sub_image_inputs ==
            [k \in 1..Len(sub_image_overlays) |->
                <<"sub_images", sub_image_overlays[k].sub_image,
                  "image_path">>]
        mixed_audio_labels ==
            [k \in 1..Len(audio) |-> <<"a", audio[k].snippet - 1>>]
        sub_image_audio_labels ==
            [k \in 1..Len(sub_image_audio) |->
                <<"sa", sub_image_audio[k].sub_image - 1>>]
        all_audio_labels == mixed_audio_labels \o sub_image_audio_labels
        has_audio == all_audio_labels # << >>
    IN  [drawbox |-> drawbox,
         audio |-> audio,
         sub_image_audio |-> sub_image_audio,
         sub_image_overlays |-> sub_image_overlays,
         inputs |-> << <<"self", 0, "image_path">> >>
                    \o audio_inputs \o sub_image_inputs,
         all_audio_labels |-> all_audio_labels,
         amix_inputs |-> IF has_audio THEN Len(all_audio_labels) ELSE 0,
         maps |-> IF has_audio THEN <<"outv", "outa">> ELSE <<"outv">>,
         total_frames |-> IF kfs = << >> THEN 1 ELSE kfs[Len(kfs)].frame,
         t |-> video_duration]

\* get_total_duration: seconds, as a fraction
GetTotalDuration(kfs, rate) ==
    IF kfs = << >> THEN Rat(0, 1) ELSE Rat(kfs[Len(kfs)].frame, rate)

----------------------------------------------------------------------------
(* Inputs *)

Durations == { (k * MsPerSecond) \div 2 : k \in 0..MaxHalfSeconds }

ZoomLevels == { Rat(1, 2), Rat(1, 1), Rat(2, 1), Rat(4, 1) }

SeqsUpTo(S, n) == UNION { [1..k -> S] : k \in 0..n }

Region(x, y, width, height) ==
    [x |-> x, y |-> y, width |-> width, height |-> height]

\* A snippet dict as the constructor normalises it into a Snippet
SnippetOf(region, audio_path, audio_duration) ==
    [x |-> region.x, y |-> region.y, width |-> region.width,
     height |-> region.height, audio_path |-> audio_path,
     audio_duration |-> audio_duration]

\* A snippet with a narration clip of the given length, or with none
Narrated(region, ms) ==
    SnippetOf(region, IF ms = 0 THEN "none" ELSE "exists", ms)

SubImage(after_snip, persistent, audio_path, audio_duration) ==
    [image_path |-> "exists", position |-> <<0, 0>>,
     after_snip |-> after_snip, persistent |-> persistent,
     audio_path |-> audio_path, audio_duration |-> audio_duration]

SubImageChoices == { SubImage(0, FALSE, "none", 0) }

Probe(ok, width, height) == [ok |-> ok, width |-> width, height |-> height]

Args(rate, intro, travel, hold, outro, minz, maxz, boxes, kb, snips, subs, probe) ==
    [fps |-> rate, intro_duration |-> intro, snippet_duration |-> travel,
     hold_duration |-> hold, outro_duration |-> outro, min_zoom |-> minz,
     max_zoom |-> maxz, show_boxes |-> boxes, ken_burns |-> kb,
     snippets |-> snips, sub_images |-> subs, probe |-> probe]

\* Family 1: KenBurnsGenerator(...) with arbitrary timing parameters
RefRegion == Region(1, 1, MaxRegion, MaxRegion)

TimingNarrations == { 0, (3 * MsPerSecond) \div 4 }

TimingSnippetLists ==
    SeqsUpTo({ Narrated(RefRegion, ms) : ms \in TimingNarrations },
             MaxSnippets)

\* With ken_burns disabled the three animation durations passed are not
\* used, so they are varied together there
TimingArgs ==
    { Args(rate, intro, travel, hold, outro, DefaultMinZoom, DefaultMaxZoom,
           FALSE, TRUE, snips, << >>, Probe(TRUE, MaxImage, MaxImage)) :
        rate \in 1..MaxFps, intro \in Durations, travel \in Durations,
        hold \in Durations, outro \in Durations,
        snips \in TimingSnippetLists }
    \cup
    { Args(rate, d, d, hold, d, DefaultMinZoom, DefaultMaxZoom,
           FALSE, FALSE, snips, << >>, Probe(TRUE, MaxImage, MaxImage)) :
        rate \in 1..MaxFps, d \in Durations, hold \in Durations,
        snips \in TimingSnippetLists }

\* Family 2: KenBurnsGenerator(...) with arbitrary geometry and zoom range
Regions ==
    { Region(x, 0, w, h) :
        x \in 0..1, w \in -1..MaxRegion, h \in -1..MaxRegion }

GeometrySnippetLists ==
    UNION { { << Narrated(r, 0) >>,
              << Narrated(r, 0), Narrated(RefRegion, 0) >> } : r \in Regions }

GeometryArgs ==
    { Args(MaxFps, MsPerSecond, MsPerSecond, MsPerSecond, MsPerSecond,
           minz, maxz, FALSE, TRUE, snips, << >>, Probe(TRUE, w, h)) :
        minz \in ZoomLevels, maxz \in ZoomLevels,
        snips \in GeometrySnippetLists,
        w \in (MaxImage - 1)..MaxImage, h \in (MaxImage - 1)..MaxImage }

\* Family 3: generate_video_from_snippets(...), which always constructs the
\* generator with the default parameters; ffprobe finds no image here, so
\* the fallback dimensions apply
ExampleRegion == Region(100, 100, 200, 150)

WideRegion == Region(600, 300, 800, 600)

NarrationChoices == { 0, 4000, 4333 }

DefaultsSnippetLists ==
    { << >> }
    \cup { << Narrated(ExampleRegion, a) >> : a \in NarrationChoices }
    \cup { << Narrated(ExampleRegion, a), Narrated(WideRegion, b) >> :
             a \in NarrationChoices, b \in NarrationChoices }

DefaultsArgs ==
    { Args(DefaultFps, DefaultIntroMs, DefaultSnippetMs, DefaultHoldMs,
           DefaultOutroMs, DefaultMinZoom, DefaultMaxZoom, FALSE, kb, snips,
           subs, Probe(FALSE, 0, 0)) :
        kb \in BOOLEAN, snips \in DefaultsSnippetLists,
        subs \in SeqsUpTo(SubImageChoices, MaxSubImages) }

\* Family 4: KenBurnsGenerator(...) with narration files that exist, are
\* missing or are not given, on snippets and on sub-images
AudioPaths == {"none", "exists", "missing"}

AudioSnippets ==
    { SnippetOf(RefRegion, path,
                IF path = "none" THEN 0 ELSE (3 * MsPerSecond) \div 4) :
        path \in AudioPaths }

AudioSubImages ==
    { SubImage(after_snip, FALSE, path,
               IF path = "none" THEN 0 ELSE (3 * MsPerSecond) \div 2) :
        after_snip \in 0..1, path \in AudioPaths }

AudioArgs ==
    { Args(MaxFps, MsPerSecond, MsPerSecond, MsPerSecond, MsPerSecond,
           DefaultMinZoom, DefaultMaxZoom, FALSE, TRUE, snips, subs,
           Probe(TRUE, MaxImage, MaxImage)) :
        snips \in SeqsUpTo(AudioSnippets, MaxSnippets),
        subs \in SeqsUpTo(AudioSubImages, MaxSubImages) }

\* Family 5: VideoGeneratorWorker(...) started by the window with the
\* snippets of the canvas, each with its narration text (a string, kept as
\* the sequence of its characters); the generator is then constructed with
\* the default parameters
Whitespace == {" ", "\t", "\n"}

Texts == { << >>, <<" ">>, <<" ", "h", "i", "\n">> }

WorkerSnippet(region, text) ==
    [x |-> region.x, y |-> region.y, width |-> region.width,
     height |-> region.height, text |-> text]

WorkerSnippetLists ==
    UNION { { [i \in 1..k |->
                 WorkerSnippet(IF i % 2 = 1 THEN ExampleRegion
                               ELSE WideRegion, texts[i])] :
              texts \in [1..k -> Texts] } : k \in 1..MaxSnippets }

WorkerArgs ==
    { Args(DefaultFps, DefaultIntroMs, DefaultSnippetMs, DefaultHoldMs,
           DefaultOutroMs, DefaultMinZoom, DefaultMaxZoom, FALSE, TRUE, snips,
           << >>, Probe(FALSE, 0, 0)) :
        snips \in WorkerSnippetLists }

\* Family 6: KenBurnsGenerator(...) with the default timing, the box overlay
\* on or off, narration lengths that are no whole number of frames or of
\* hundredths of a second, and overlays placed after any snippet index
BoxNarrations == { 0, 4334, 4350 }

BoxSnippetLists ==
    SeqsUpTo({ Narrated(ExampleRegion, ms) : ms \in BoxNarrations },
             MaxSnippets)

BoxSubImages ==
    { SubImage(after_snip, TRUE, "none", 0) : after_snip \in -1..MaxSnippets }
    \cup { SubImage(0, FALSE, "none", 0) }

BoxArgs ==
    { Args(DefaultFps, DefaultIntroMs, DefaultSnippetMs, DefaultHoldMs,
           DefaultOutroMs, DefaultMinZoom, DefaultMaxZoom, boxes, kb, snips,
           subs, Probe(FALSE, 0, 0)) :
        boxes \in BOOLEAN, kb \in BOOLEAN, snips \in BoxSnippetLists,
        subs \in SeqsUpTo(BoxSubImages, MaxSubImages) }

\* Family 7: KenBurnsGenerator(...) with every mix of narration files and
\* overlay images that exist or are missing
MaxOverlays == 2

InputSnippets ==
    { SnippetOf(RefRegion, path, (3 * MsPerSecond) \div 4) :
        path \in {"exists", "missing"} }

InputSubImages ==
    { [SubImage(0, FALSE, audio_path,
                IF audio_path = "none" THEN 0 ELSE (3 * MsPerSecond) \div 2)
          EXCEPT !.image_path = image_path] :
        audio_path \in AudioPaths, image_path \in {"exists", "missing"} }

InputArgs ==
    { Args(MaxFps, MsPerSecond, MsPerSecond, MsPerSecond, MsPerSecond,
           DefaultMinZoom, DefaultMaxZoom, FALSE, TRUE, snips, subs,
           Probe(TRUE, MaxImage, MaxImage)) :
        snips \in SeqsUpTo(InputSnippets, MaxSnippets),
        subs \in SeqsUpTo(InputSubImages, MaxOverlays) }

NoCommand ==
    [drawbox |-> << >>, audio |-> << >>, sub_image_audio |-> << >>,
     sub_image_overlays |-> << >>, inputs |-> << >>,
     all_audio_labels |-> << >>, amix_inputs |-> 0, maps |-> << >>,
     total_frames |-> 0, t |-> Rat(0, 1)]

\* A message is kept as its fixed text and the detail formatted into it
NoResult == [success |-> FALSE, message |-> <<"", "">>]

NoExit == [status |-> "", diagnostic |-> ""]

\* MainWindow.__init__ and ImageCanvas.__init__: no image, no snippets, the
\* Generate button enabled, no worker
WindowConstructed ==
    /\ canvas_snippets = << >>
    /\ selected_snippet_idx = -1
    /\ snip_mode = FALSE
    /\ image_loaded = FALSE
    /\ snippet_widgets = << >>
    /\ pending_snippets = << >>
    /\ selected_pending_idx = -1
    /\ btn_generate_enabled = TRUE
    /\ unhandled_workers = 0

Init ==
    /\ WindowConstructed
    /\ \/ /\ args \in TimingArgs \cup GeometryArgs \cup DefaultsArgs
                        \cup AudioArgs
          /\ pc = "init"
          /\ worker_snippets = << >>
       \/ /\ args \in WorkerArgs
          /\ pc = "worker"
          /\ worker_snippets = args.snippets
    /\ snippets_with_audio = << >>
    /\ tts_log = << >>
    /\ finished_signals = << >>
    /\ image_width = 0
    /\ image_height = 0
    /\ fps = 0
    /\ intro_duration = 0
    /\ snippet_duration = 0
    /\ hold_duration = 0
    /\ outro_duration = 0
    /\ min_zoom = One
    /\ max_zoom = One
    /\ show_boxes = FALSE
    /\ ken_burns = FALSE
    /\ snippets = << >>
    /\ sub_images = << >>
    /\ keyframes = << >>
    /\ cmd = NoCommand
    /\ encoder_calls = 0
    /\ encoder_exit = NoExit
    /\ error = ""
    /\ result = NoResult

----------------------------------------------------------------------------
(* Operations *)

\* _get_image_dimensions: ffprobe's answer, or the fallback when it fails
GetImageDimensions(probe) ==
    IF probe.ok THEN <<probe.width, probe.height>>
    ELSE <<FallbackWidth, FallbackHeight>>

\* The fields KenBurnsGenerator.__init__ assigns before it calculates the
\* keyframes
InitFields(a) ==
    [image_width |-> GetImageDimensions(a.probe)[1],
     image_height |-> GetImageDimensions(a.probe)[2],
     fps |-> a.fps,
     intro_duration |-> IF a.ken_burns THEN a.intro_duration ELSE 0,
     snippet_duration |-> IF a.ken_burns THEN a.snippet_duration ELSE 0,
     outro_duration |-> IF a.ken_burns THEN a.outro_duration ELSE 0,
     hold_duration |-> a.hold_duration,
     min_zoom |-> a.min_zoom, max_zoom |-> a.max_zoom,
     snippets |-> a.snippets]

\* KenBurnsGenerator.__init__
Construct ==
    /\ pc = "init"
    /\ LET self == InitFields(args)
       IN  /\ image_width' = self.image_width
           /\ image_height' = self.image_height
           /\ fps' = self.fps
           /\ intro_duration' = self.intro_duration
           /\ snippet_duration' = self.snippet_duration
           /\ outro_duration' = self.outro_duration
           /\ hold_duration' = self.hold_duration
           /\ min_zoom' = self.min_zoom
           /\ max_zoom' = self.max_zoom
           /\ snippets' = self.snippets
           /\ show_boxes' = args.show_boxes
           /\ ken_burns' = args.ken_burns
           /\ sub_images' = args.sub_images
           /\ IF KeyframesRaise(self.snippets)
              THEN /\ keyframes' = << >>
                   /\ error' = "ZeroDivisionError"
                   /\ pc' = "raised"
              ELSE /\ keyframes' = CalculateKeyframes(self)
                   /\ error' = ""
                   /\ pc' = "ready"
    /\ UNCHANGED <<args, cmd, encoder_calls, encoder_exit, result>>
    /\ UNCHANGED worker_vars
    /\ UNCHANGED gui_vars

\* Fault variant: the empty-snippet check left out
GenerateProceeds_Unchecked(snips) == TRUE

\* Whether generate() goes on to build the command and start the encoder
GenerateProceeds(snips) == snips # << >>

NoSnippetsMessage ==
    <<"No snippets defined. Create at least one snippet first.", "">>

\* generate(): "if not self.snippets: return False, ..."
GenerateRefuse ==
    /\ pc = "ready"
    /\ ~GenerateProceeds(snippets)
    /\ result' = [success |-> FALSE, message |-> NoSnippetsMessage]
    /\ pc' = "done"
    /\ UNCHANGED <<args, image_width, image_height, fps, intro_duration,
                   snippet_duration, hold_duration, outro_duration, min_zoom,
                   max_zoom, show_boxes, ken_burns, snippets, sub_images,
                   keyframes, cmd, encoder_calls, encoder_exit, error>>
    /\ UNCHANGED worker_vars
    /\ UNCHANGED gui_vars

\* What the encoder prints on stderr, and what an exception says
Diagnostics ==
    {"Invalid data found when processing input", "Permission denied"}

\* The ways the encoder can end: Popen fails (no binary, or another
\* exception), or the process runs and exits, or communicate() raises
PopenOutcomes ==
    { [status |-> "started", diagnostic |-> ""],
      [status |-> "FileNotFoundError", diagnostic |-> "No such file: ffmpeg"] }
    \cup { [status |-> "Exception", diagnostic |-> d] : d \in Diagnostics }

ExitOutcomes ==
    { [status |-> "returncode 0", diagnostic |-> ""] }
    \cup { [status |-> st, diagnostic |-> d] :
             st \in {"returncode 1", "Exception"}, d \in Diagnostics }

NotFoundMessage == <<"FFmpeg not found. Please install FFmpeg.", "">>

\* Fault variant: the return code is not looked at
GenerateResult_AnyExit(outcome) ==
    IF outcome.status \in {"returncode 0", "returncode 1"}
    THEN [success |-> TRUE,
          message |-> <<"Video generated successfully: ", "output_path">>]
    ELSE IF outcome.status = "FileNotFoundError"
         THEN [success |-> FALSE, message |-> NotFoundMessage]
         ELSE [success |-> FALSE,
               message |-> <<"Error: ", outcome.diagnostic>>]

\* generate(): the (success, message) pair returned for an encoder outcome
GenerateResult(outcome) ==
    IF outcome.status = "returncode 0"
    THEN [success |-> TRUE,
          message |-> <<"Video generated successfully: ", "output_path">>]
    ELSE IF outcome.status = "returncode 1"
         THEN [success |-> FALSE,
               message |-> <<"FFmpeg error: ", outcome.diagnostic>>]
         ELSE IF outcome.status = "FileNotFoundError"
              THEN [success |-> FALSE, message |-> NotFoundMessage]
              ELSE [success |-> FALSE,
                    message |-> <<"Error: ", outcome.diagnostic>>]

\* generate(): build the command and start ffmpeg with subprocess.Popen
GenerateStart ==
    /\ pc = "ready"
    /\ GenerateProceeds(snippets)
    /\ cmd' = BuildFfmpegCommand(Self, keyframes)
    /\ encoder_calls' = encoder_calls + 1
    /\ \E popen \in PopenOutcomes :
         IF popen.status = "started"
         THEN /\ pc' = "encoding"
              /\ encoder_exit' = encoder_exit
              /\ result' = result
         ELSE /\ pc' = "done"
              /\ encoder_exit' = popen
              /\ result' = GenerateResult(popen)
    /\ UNCHANGED <<args, image_width, image_height, fps, intro_duration,
                   snippet_duration, hold_duration, outro_duration, min_zoom,
                   max_zoom, show_boxes, ken_burns, snippets, sub_images,
                   keyframes, error>>
    /\ UNCHANGED worker_vars
    /\ UNCHANGED gui_vars

\* generate(): process.communicate() returns and the return code is examined
EncoderExit ==
    /\ pc = "encoding"
    /\ \E outcome \in ExitOutcomes :
         /\ encoder_exit' = outcome
         /\ result' = GenerateResult(outcome)
    /\ pc' = "done"
    /\ UNCHANGED <<args, image_width, image_height, fps, intro_duration,
                   snippet_duration, hold_duration, outro_duration, min_zoom,
                   max_zoom, show_boxes, ken_burns, snippets, sub_images,
                   keyframes, cmd, encoder_calls, error>>
    /\ UNCHANGED worker_vars
    /\ UNCHANGED gui_vars

\* str.strip(): the text without its leading and trailing whitespace
RECURSIVE LStrip(_)
LStrip(text) ==
    IF text # << >> /\ Head(text) \in Whitespace THEN LStrip(Tail(text))
    ELSE text

RECURSIVE RStrip(_)
RStrip(text) ==
    IF text # << >> /\ text[Len(text)] \in Whitespace
    THEN RStrip(SubSeq(text, 1, Len(text) - 1))
    ELSE text

\* Fault variant: the text is used as typed
Strip_Nothing(text) == text

Strip(text) == RStrip(LStrip(text))

\* What the narration service and the file system can do with one request:
\* the clip is saved (its length is then read from the file, 0 when the file
\* cannot be read); the request fails inside _generate_edge_tts, which
\* catches the exception, and either no file was created or the file the
\* service had opened for writing is left behind; or asyncio.run raises
TtsDurations == {0, 4000}

TtsOutcomes ==
    { [kind |-> "saved", duration |-> d] : d \in TtsDurations }
    \cup { [kind |-> k, duration |-> 0] :
             k \in {"failed", "failed, file left", "raised"} }

\* TTSHandler.generate_audio: success is "the output file exists"; the
\* value returned by _generate_edge_tts is not looked at
GenerateAudio(text, outcome) ==
    IF Strip(text) = << >>
    THEN [called |-> FALSE, success |-> FALSE, duration |-> 0]
    ELSE IF outcome.kind = "raised"
         THEN [called |-> TRUE, success |-> FALSE, duration |-> 0]
         ELSE IF outcome.kind \in {"saved", "failed, file left"}
              THEN [called |-> TRUE, success |-> TRUE,
                    duration |-> outcome.duration]
              ELSE [called |-> TRUE, success |-> FALSE, duration |-> 0]

\* d.get(key, default) on a dict kept as a record
Get(d, key, default) == IF key \in DOMAIN d THEN d[key] ELSE default

\* The Snippet the constructor makes of a dict: the dataclass defaults stand
\* in for the keys the dict lacks (the text is carried along but never read
\* by the generator, so it is left out here)
NormalizeSnippet(d) ==
    SnippetOf(d, Get(d, "audio_path", "none"), Get(d, "audio_duration", 0))

\* VideoGeneratorWorker.run, one turn of "for i, snippet in enumerate(...)"
WorkerNarrate ==
    /\ pc = "worker"
    /\ Len(snippets_with_audio) < Len(worker_snippets)
    /\ LET i == Len(snippets_with_audio) + 1
           snippet == worker_snippets[i]
           text == Strip(snippet.text)
       IN  IF text # << >>
           THEN \E outcome \in TtsOutcomes :
                  LET r == GenerateAudio(text, outcome)
                      with_audio ==
                          [k \in DOMAIN snippet
                                  \cup {"audio_path", "audio_duration"} |->
                              IF k = "audio_path" THEN "exists"
                              ELSE IF k = "audio_duration" THEN r.duration
                              ELSE snippet[k]]
                  IN  /\ snippets_with_audio' =
                            Append(snippets_with_audio,
                                   IF r.success THEN with_audio ELSE snippet)
                      /\ tts_log' =
                            IF r.called
                            THEN Append(tts_log,
                                        [snippet |-> i, text |-> text,
                                         outcome |-> outcome.kind])
                            ELSE tts_log
           ELSE /\ snippets_with_audio' =
                      Append(snippets_with_audio,
                             [k \in DOMAIN snippet
                                     \cup {"audio_path", "audio_duration"} |->
                                 IF k = "audio_path" THEN "none"
                                 ELSE IF k = "audio_duration" THEN 0
                                 ELSE snippet[k]])
                /\ tts_log' = tts_log
    /\ UNCHANGED <<args, pc, worker_snippets, finished_signals, image_width,
                   image_height, fps, intro_duration, snippet_duration,
                   hold_duration, outro_duration, min_zoom, max_zoom,
                   show_boxes, ken_burns, snippets, sub_images, keyframes,
                   cmd, encoder_calls, encoder_exit, error, result>>
    /\ UNCHANGED gui_vars

\* VideoGeneratorWorker.run, "Step 2/2": generate_video_from_snippets is
\* called with snippets_with_audio and no sub-images
WorkerGenerate ==
    /\ pc = "worker"
    /\ Len(snippets_with_audio) = Len(worker_snippets)
    /\ args' = [args EXCEPT !.snippets =
                    [i \in 1..Len(snippets_with_audio) |->
                        NormalizeSnippet(snippets_with_audio[i])]]
    /\ pc' = "init"
    /\ UNCHANGED <<worker_vars, image_width, image_height, fps,
                   intro_duration, snippet_duration, hold_duration,
                   outro_duration, min_zoom, max_zoom, show_boxes, ken_burns,
                   snippets, sub_images, keyframes, cmd, encoder_calls,
                   encoder_exit, error, result>>
    /\ UNCHANGED gui_vars

\* VideoGeneratorWorker.run: self.finished.emit(success, message)
WorkerEmit ==
    /\ pc = "done"
    /\ worker_snippets # << >>
    /\ finished_signals' = Append(finished_signals, result)
    /\ pc' = "finished"
    /\ UNCHANGED <<args, worker_snippets, snippets_with_audio, tts_log,
                   image_width, image_height, fps, intro_duration,
                   snippet_duration, hold_duration, outro_duration, min_zoom,
                   max_zoom, show_boxes, ken_burns, snippets, sub_images,
                   keyframes, cmd, encoder_calls, encoder_exit, error,
                   result>>
    /\ UNCHANGED gui_vars

Next ==
    \/ WorkerNarrate
    \/ WorkerGenerate
    \/ WorkerEmit
    \/ Construct
    \/ GenerateRefuse
    \/ GenerateStart
    \/ EncoderExit

Spec == Init /\ [][Next]_vars

\* No generator has been constructed and no worker has run
NothingRun ==
    /\ snippets_with_audio = << >>
    /\ tts_log = << >>
    /\ finished_signals = << >>
    /\ image_width = 0
    /\ image_height = 0
    /\ fps = 0
    /\ intro_duration = 0
    /\ snippet_duration = 0
    /\ hold_duration = 0
    /\ outro_duration = 0
    /\ min_zoom = One
    /\ max_zoom = One
    /\ show_boxes = FALSE
    /\ ken_burns = FALSE
    /\ snippets = << >>
    /\ sub_images = << >>
    /\ keyframes = << >>
    /\ cmd = NoCommand
    /\ encoder_calls = 0
    /\ encoder_exit = NoExit
    /\ error = ""
    /\ result = NoResult

\* The generator called directly with the arguments of families 6 and 7
CommandInit ==
    /\ WindowConstructed
    /\ args \in BoxArgs \cup InputArgs
    /\ pc = "init"
    /\ worker_snippets = << >>
    /\ NothingRun

CommandNext ==
    \/ Construct
    \/ GenerateRefuse
    \/ GenerateStart
    \/ EncoderExit

CommandSpec == CommandInit /\ [][CommandNext]_vars

----------------------------------------------------------------------------
(* The editor window: canvas, storyboard widgets, imported snippets *)

run_vars ==
    <<args, pc, worker_snippets, snippets_with_audio, tts_log,
      finished_signals, image_width, image_height, fps, intro_duration,
      snippet_duration, hold_duration, outro_duration, min_zoom, max_zoom,
      show_boxes, ken_burns, snippets, sub_images, keyframes, cmd,
      encoder_calls, encoder_exit, error, result>>

\* Most regions kept on the canvas, most snippets of an imported storyboard
MaxCanvas == 2
MaxJson == 1

\* list.pop(idx) with a 0-based index
Pop(seq, idx) ==
    [k \in 1..(Len(seq) - 1) |-> IF k <= idx THEN seq[k] ELSE seq[k + 1]]

\* The rectangles the user drags on the screen, in pixels, each with the
\* canvas scale factor at that moment; the image is 1920 x 1080 and shown
\* with its top-left corner at the origin of the viewport
ScreenRect(x, y, width, height) ==
    [x |-> x, y |-> y, width |-> width, height |-> height]

SourceWidth == 1920
SourceHeight == 1080

MinDragPixels == 10

Drags ==
    { [rect |-> ScreenRect(100, 100, 200, 150), scale_factor |-> Rat(1, 1)],
      [rect |-> ScreenRect(0, 0, 12, 12), scale_factor |-> Rat(16, 1)],
      [rect |-> ScreenRect(0, 0, 8, 200), scale_factor |-> Rat(1, 1)] }

Min(a, b) == IF a <= b THEN a ELSE b

\* int(pixels / scale_factor) for pixels >= 0
ToSource(pixels, scale_factor) ==
    (pixels * scale_factor.d) \div scale_factor.n

\* ImageCanvas._screen_to_source_rect: x and y are clamped to the image,
\* the width and the height are not
ScreenToSourceRect(screen_rect, scale_factor) ==
    Region(Max(0, Min(ToSource(screen_rect.x, scale_factor), SourceWidth)),
           Max(0, Min(ToSource(screen_rect.y, scale_factor), SourceHeight)),
           ToSource(screen_rect.width, scale_factor),
           ToSource(screen_rect.height, scale_factor))

\* "if source_rect:" is QRect.__bool__, that is QRect.isValid(): a rectangle
\* without width or without height counts as no rectangle
IsValid(rect) == rect.width > 0 /\ rect.height > 0

\* The narration texts typed into a widget or read from a storyboard
JsonText == <<" ", "h", "i", "\n">>
ScriptTexts == { JsonText }

\* Each dict of ImageCanvas.snippets carries, besides what the program
\* stores, an "id" that tells the dicts apart (object identity)
IdsInUse == { canvas_snippets[k].id : k \in 1..Len(canvas_snippets) }

FreshId == CHOOSE n \in 0..MaxCanvas : n \notin IdsInUse

\* ImageCanvas.select_snippet
SelectSnippet(snips, idx) == IF 0 <= idx /\ idx < Len(snips) THEN idx ELSE -1

\* Fault variant: the selection is not moved down with the snippets behind
\* the deleted one
SelectedAfterDelete_NoShift(selected, idx) ==
    IF selected = idx THEN -1 ELSE selected

\* ImageCanvas.delete_snippet: what becomes of selected_snippet_idx
SelectedAfterDelete(selected, idx) ==
    IF selected = idx THEN -1
    ELSE IF selected > idx THEN selected - 1
    ELSE selected

\* ImageCanvas.delete_snippet
DeleteSnippet(snips, selected, idx) ==
    IF 0 <= idx /\ idx < Len(snips)
    THEN [snippets |-> Pop(snips, idx),
          selected_snippet_idx |-> SelectedAfterDelete(selected, idx)]
    ELSE [snippets |-> snips, selected_snippet_idx |-> selected]

\* SnippetItemWidget.update_index for every widget of the list
UpdateIndices(widgets) ==
    [k \in 1..Len(widgets) |-> [widgets[k] EXCEPT !.idx = k - 1]]

\* MainWindow.toggle_snip_mode, btn_snip being a checkable button
ToggleSnipMode ==
    /\ snip_mode' = ~snip_mode
    /\ UNCHANGED <<canvas_snippets, selected_snippet_idx, image_loaded,
                   snippet_widgets, pending_snippets, selected_pending_idx,
                   btn_generate_enabled, unhandled_workers>>
    /\ UNCHANGED run_vars

\* ImageCanvas.mouseReleaseEvent in snip mode, with MainWindow
\* .on_snippet_created run by the snippet_created signal before the new
\* snippet is selected
MouseRelease(drag) ==
    /\ snip_mode
    /\ Len(canvas_snippets) < MaxCanvas
    /\ LET source_rect == ScreenToSourceRect(drag.rect, drag.scale_factor)
           idx == Len(canvas_snippets)
           assigning ==
               /\ selected_pending_idx # -1
               /\ selected_pending_idx < Len(pending_snippets)
               /\ ~pending_snippets[selected_pending_idx + 1].assigned
           id == FreshId
       IN  IF /\ drag.rect.width > MinDragPixels
              /\ drag.rect.height > MinDragPixels
              /\ image_loaded
              /\ IsValid(source_rect)
           THEN /\ selected_snippet_idx' = idx
                /\ IF assigning
                   THEN LET pending ==
                                pending_snippets[selected_pending_idx + 1]
                            widget_idx == selected_pending_idx
                        IN  /\ canvas_snippets' =
                                  Append(canvas_snippets,
                                         [id |-> id, source_rect |-> source_rect,
                                          text |-> pending.text])
                            /\ pending_snippets' =
                                  [pending_snippets
                                      EXCEPT ![selected_pending_idx + 1] =
                                          [pending EXCEPT
                                              !.assigned = TRUE]]
                            /\ snippet_widgets' =
                                  IF widget_idx < Len(snippet_widgets)
                                  THEN [snippet_widgets
                                          EXCEPT ![widget_idx + 1] =
                                              [@ EXCEPT
                                                  !.clicked = "select_snippet",
                                                  !.ci = idx]]
                                  ELSE snippet_widgets
                            /\ selected_pending_idx' = -1
                            /\ snip_mode' = FALSE
                   ELSE /\ canvas_snippets' =
                              Append(canvas_snippets,
                                     [id |-> id, source_rect |-> source_rect,
                                      text |-> << >>])
                        /\ snippet_widgets' =
                              Append(snippet_widgets,
                                     [idx |-> idx,
                                      clicked |-> "on_snippet_click",
                                      deleted |-> "on_snippet_delete",
                                      ci |-> -1])
                        /\ UNCHANGED <<pending_snippets,
                                       selected_pending_idx, snip_mode>>
           ELSE UNCHANGED <<canvas_snippets, selected_snippet_idx,
                            snippet_widgets, pending_snippets,
                            selected_pending_idx, snip_mode>>
    /\ UNCHANGED <<image_loaded, btn_generate_enabled, unhandled_workers>>
    /\ UNCHANGED run_vars

\* A click on the header of the k-th widget of the storyboard: the widget
\* emits clicked(self.idx) to whatever its signal is connected to
WidgetClick(k) ==
    /\ k \in 1..Len(snippet_widgets)
    /\ LET widget == snippet_widgets[k]
           idx == widget.idx
       IN  IF widget.clicked = "on_snippet_click"
           THEN /\ selected_snippet_idx' = SelectSnippet(canvas_snippets, idx)
                /\ UNCHANGED <<selected_pending_idx, snip_mode>>
           ELSE IF widget.clicked = "select_snippet"
           THEN /\ selected_snippet_idx' =
                      SelectSnippet(canvas_snippets, widget.ci)
                /\ UNCHANGED <<selected_pending_idx, snip_mode>>
           ELSE IF 0 <= idx /\ idx < Len(pending_snippets)
           THEN IF ~pending_snippets[idx + 1].assigned
                THEN /\ selected_pending_idx' = idx
                     /\ snip_mode' = TRUE
                     /\ UNCHANGED selected_snippet_idx
                ELSE /\ selected_snippet_idx' =
                           SelectSnippet(canvas_snippets, idx)
                     /\ UNCHANGED <<selected_pending_idx, snip_mode>>
           ELSE UNCHANGED <<selected_snippet_idx, selected_pending_idx,
                            snip_mode>>
    /\ UNCHANGED <<canvas_snippets, image_loaded, snippet_widgets,
                   pending_snippets, btn_generate_enabled, unhandled_workers>>
    /\ UNCHANGED run_vars

\* A click on the delete button of the k-th widget: the widget emits
\* deleted(self.idx) to on_snippet_delete (with _refresh_snippet_widgets) or
\* to _on_pending_snippet_delete
WidgetDelete(k) ==
    /\ k \in 1..Len(snippet_widgets)
    /\ LET widget == snippet_widgets[k]
           idx == widget.idx
           in_range == 0 <= idx /\ idx < Len(snippet_widgets)
       IN  IF ~in_range
           THEN UNCHANGED <<canvas_snippets, selected_snippet_idx,
                            snippet_widgets, pending_snippets>>
           ELSE IF widget.deleted = "on_snippet_delete"
           THEN LET canvas == DeleteSnippet(canvas_snippets,
                                            selected_snippet_idx, idx)
                IN  /\ snippet_widgets' =
                          UpdateIndices(Pop(snippet_widgets, idx))
                    /\ canvas_snippets' = canvas.snippets
                    /\ selected_snippet_idx' = canvas.selected_snippet_idx
                    /\ UNCHANGED pending_snippets
           ELSE /\ snippet_widgets' =
                      UpdateIndices(Pop(snippet_widgets, idx))
                /\ pending_snippets' =
                      IF idx < Len(pending_snippets)
                      THEN Pop(pending_snippets, idx)
                      ELSE pending_snippets
                /\ UNCHANGED <<canvas_snippets, selected_snippet_idx>>
    /\ UNCHANGED <<snip_mode, image_loaded, selected_pending_idx,
                   btn_generate_enabled, unhandled_workers>>
    /\ UNCHANGED run_vars

\* The user types a script into the k-th widget: the widget emits
\* text_changed(self.idx, text) to on_script_changed or to
\* _on_pending_text_changed
TypeScript(k, text) ==
    /\ k \in 1..Len(snippet_widgets)
    /\ LET widget == snippet_widgets[k]
           idx == widget.idx
       IN  IF widget.deleted = "on_snippet_delete"
           THEN /\ canvas_snippets' =
                      IF 0 <= idx /\ idx < Len(canvas_snippets)
                      THEN [canvas_snippets EXCEPT ![idx + 1].text = text]
                      ELSE canvas_snippets
                /\ UNCHANGED pending_snippets
           ELSE /\ pending_snippets' =
                      IF 0 <= idx /\ idx < Len(pending_snippets)
                      THEN [pending_snippets EXCEPT ![idx + 1].text = text]
                      ELSE pending_snippets
                /\ UNCHANGED canvas_snippets
    /\ UNCHANGED <<selected_snippet_idx, snip_mode, image_loaded,
                   snippet_widgets, selected_pending_idx,
                   btn_generate_enabled, unhandled_workers>>
    /\ UNCHANGED run_vars

\* The positions, counted from 0, of the storyboard entries that have a text
WithText(has_text) == { i \in 0..(Len(has_text) - 1) : has_text[i + 1] }

\* The i-th entry with a text, in the order of the file
RECURSIVE NthOf(_, _)
NthOf(S, n) ==
    LET least == CHOOSE i \in S : \A j \in S : i <= j
    IN  IF n = 1 THEN least ELSE NthOf(S \ {least}, n - 1)

\* MainWindow._parse_json_snippets for a file whose "snippets" array has
\* Len(has_text) entries, has_text telling which of them have a "text" key;
\* an empty array is refused. Of a pending snippet only the keys the
\* program reads are kept ("widget_idx" and "canvas_idx" are written and
\* never read)
UploadJson(has_text) ==
    /\ IF has_text = << >>
       THEN UNCHANGED <<canvas_snippets, selected_snippet_idx,
                        snippet_widgets, pending_snippets>>
       ELSE LET kept == WithText(has_text)
                count == Cardinality(kept)
            IN  /\ canvas_snippets' = << >>
                /\ selected_snippet_idx' = -1
                /\ pending_snippets' =
                      [k \in 1..count |->
                          [text |-> JsonText, assigned |-> FALSE]]
                /\ snippet_widgets' =
                      [k \in 1..count |->
                          [idx |-> NthOf(kept, k),
                           clicked |-> "_on_pending_snippet_click",
                           deleted |-> "_on_pending_snippet_delete",
                           ci |-> -1]]
    /\ UNCHANGED <<snip_mode, image_loaded, selected_pending_idx,
                   btn_generate_enabled, unhandled_workers>>
    /\ UNCHANGED run_vars

\* MainWindow.process_image_upload: the copy succeeds and the canvas and
\* the storyboard are cleared, or it raises and the error is logged
UploadImage ==
    /\ \E copied \in BOOLEAN :
         IF copied
         THEN /\ image_loaded' = TRUE
              /\ canvas_snippets' = << >>
              /\ selected_snippet_idx' = -1
              /\ snippet_widgets' = << >>
         ELSE UNCHANGED <<image_loaded, canvas_snippets,
                          selected_snippet_idx, snippet_widgets>>
    /\ UNCHANGED <<snip_mode, pending_snippets, selected_pending_idx,
                   btn_generate_enabled, unhandled_workers>>
    /\ UNCHANGED run_vars

\* The arguments of a generator that was never asked for
IdleArgs ==
    Args(DefaultFps, DefaultIntroMs, DefaultSnippetMs, DefaultHoldMs,
         DefaultOutroMs, DefaultMinZoom, DefaultMaxZoom, FALSE, TRUE, << >>,
         << >>, Probe(FALSE, 0, 0))

\* The editor alone: the window as constructed, no generation run
GuiInit ==
    /\ WindowConstructed
    /\ args = IdleArgs
    /\ pc = "idle"
    /\ worker_snippets = << >>
    /\ NothingRun

GuiNext ==
    \/ ToggleSnipMode
    \/ \E drag \in Drags : MouseRelease(drag)
    \/ \E k \in 1..(MaxCanvas + MaxJson) : WidgetClick(k)
    \/ \E k \in 1..(MaxCanvas + MaxJson) : WidgetDelete(k)
    \/ \E k \in 1..(MaxCanvas + MaxJson), text \in ScriptTexts :
         TypeScript(k, text)
    \/ \E has_text \in SeqsUpTo(BOOLEAN, MaxJson) : UploadJson(has_text)
    \/ UploadImage

GuiSpec == GuiInit /\ [][GuiNext]_vars

----------------------------------------------------------------------------

(* A generation run started from the window *)

\* Fault variant: the Generate button is left as it was
ButtonWhileGenerating_Unchanged(enabled) == enabled

\* generate_video: self.btn_generate.setEnabled(False)
ButtonWhileGenerating(enabled) == FALSE

\* generate_video: the dict made of each canvas snippet
SnippetsData(canvas) ==
    [k \in 1..Len(canvas) |->
        WorkerSnippet(canvas[k].source_rect, canvas[k].text)]

\* MainWindow.generate_video, the slot of btn_generate.clicked (a disabled
\* button emits no click): without an image or without snippets a warning
\* is shown; the options dialog is modal and may be cancelled; otherwise
\* the button is disabled and a new worker is created and started
GenerateVideo ==
    /\ btn_generate_enabled
    /\ \E accepted \in BOOLEAN, boxes \in BOOLEAN, kb \in BOOLEAN :
         IF image_loaded /\ canvas_snippets # << >> /\ accepted
         THEN /\ btn_generate_enabled' =
                    ButtonWhileGenerating(btn_generate_enabled)
              /\ unhandled_workers' = unhandled_workers + 1
              /\ worker_snippets' = SnippetsData(canvas_snippets)
              /\ args' = Args(DefaultFps, DefaultIntroMs, DefaultSnippetMs,
                              DefaultHoldMs, DefaultOutroMs, DefaultMinZoom,
                              DefaultMaxZoom, boxes, kb,
                              SnippetsData(canvas_snippets), << >>,
                              Probe(FALSE, 0, 0))
              /\ pc' = "started"
              /\ snippets_with_audio' = << >>
              /\ tts_log' = << >>
              /\ finished_signals' = << >>
              /\ image_width' = 0
              /\ image_height' = 0
              /\ fps' = 0
              /\ intro_duration' = 0
              /\ snippet_duration' = 0
              /\ hold_duration' = 0
              /\ outro_duration' = 0
              /\ min_zoom' = One
              /\ max_zoom' = One
              /\ show_boxes' = FALSE
              /\ ken_burns' = FALSE
              /\ snippets' = << >>
              /\ sub_images' = << >>
              /\ keyframes' = << >>
              /\ cmd' = NoCommand
              /\ encoder_calls' = 0
              /\ encoder_exit' = NoExit
              /\ error' = ""
              /\ result' = NoResult
         ELSE UNCHANGED <<btn_generate_enabled, unhandled_workers, run_vars>>
    /\ UNCHANGED <<canvas_snippets, selected_snippet_idx, snip_mode,
                   image_loaded, snippet_widgets, pending_snippets,
                   selected_pending_idx>>

\* VideoGeneratorWorker.run up to its loop: os.makedirs creates the
\* temp_audio directory or raises OSError (a file of that name is in the
\* way, the output directory is gone or cannot be written); nothing in run
\* catches the exception
WorkerPrepare ==
    /\ pc = "started"
    /\ \E created \in BOOLEAN :
         IF created
         THEN /\ pc' = "worker"
              /\ error' = error
         ELSE /\ pc' = "raised"
              /\ error' = "OSError"
    /\ UNCHANGED <<args, worker_vars, image_width, image_height, fps,
                   intro_duration, snippet_duration, hold_duration,
                   outro_duration, min_zoom, max_zoom, show_boxes, ken_burns,
                   snippets, sub_images, keyframes, cmd, encoder_calls,
                   encoder_exit, result>>
    /\ UNCHANGED gui_vars

\* MainWindow.on_video_finished, the slot of the worker's finished signal
OnVideoFinished ==
    /\ pc = "finished"
    /\ btn_generate_enabled' = TRUE
    /\ unhandled_workers' = unhandled_workers - 1
    /\ pc' = "idle"
    /\ UNCHANGED <<canvas_snippets, selected_snippet_idx, snip_mode,
                   image_loaded, snippet_widgets, pending_snippets,
                   selected_pending_idx>>
    /\ UNCHANGED <<args, worker_vars, image_width, image_height, fps,
                   intro_duration, snippet_duration, hold_duration,
                   outro_duration, min_zoom, max_zoom, show_boxes, ken_burns,
                   snippets, sub_images, keyframes, cmd, encoder_calls,
                   encoder_exit, error, result>>

\* The scripts of the regions on the canvas when the runs begin
RunScripts ==
    { << >>, << << >> >>, <<JsonText>>, <<JsonText, << >>>> }

\* The window after an image was uploaded, the regions were drawn one by
\* one in snip mode and their scripts typed
Drawn(scripts) ==
    /\ canvas_snippets =
          [k \in 1..Len(scripts) |->
              [id |-> k - 1, source_rect |-> ExampleRegion,
               text |-> scripts[k]]]
    /\ selected_snippet_idx = Len(scripts) - 1
    /\ snip_mode = TRUE
    /\ image_loaded = TRUE
    /\ snippet_widgets =
          [k \in 1..Len(scripts) |->
              [idx |-> k - 1, clicked |-> "on_snippet_click",
               deleted |-> "on_snippet_delete", ci |-> -1]]
    /\ pending_snippets = << >>
    /\ selected_pending_idx = -1
    /\ btn_generate_enabled = TRUE
    /\ unhandled_workers = 0

RunInit ==
    /\ \E scripts \in RunScripts : Drawn(scripts)
    /\ args = IdleArgs
    /\ pc = "idle"
    /\ worker_snippets = << >>
    /\ NothingRun

\* The steps of the worker thread outside the generator's constructor, and
\* the delivery of its signal (the worker never has an empty snippet list,
\* so generate() does not refuse)
RunStep ==
    \/ WorkerPrepare
    \/ WorkerNarrate
    \/ WorkerGenerate
    \/ GenerateStart
    \/ EncoderExit
    \/ WorkerEmit
    \/ OnVideoFinished

\* What the user does meanwhile
UserStep ==
    \/ GenerateVideo
    \/ ToggleSnipMode
    \/ \E k \in 1..MaxCanvas : WidgetClick(k)
    \/ \E k \in 1..MaxCanvas : WidgetDelete(k)

RunNext == RunStep \/ Construct \/ UserStep

RunSpec == RunInit /\ [][RunNext]_vars

\* The worker thread keeps running, the encoder ends, and the event loop
\* delivers the queued signal; the constructor, a finite computation, does
\* not stay at its start for ever; the user is under no obligation
RunFairInit ==
    /\ Drawn(<<JsonText>>)
    /\ args = IdleArgs
    /\ pc = "idle"
    /\ worker_snippets = << >>
    /\ NothingRun

ConstructorEnds == []<>(pc # "init")

RunFairSpec ==
    RunFairInit /\ [][RunNext]_vars /\ WF_vars(RunStep) /\ ConstructorEnds

----------------------------------------------------------------------------

(* Properties *)

RatLess(a, b) == a.n * b.d < b.n * a.d

\* The keyframes have been calculated (the constructor returned)
KeyframesBuilt == pc \in {"ready", "encoding", "done", "finished"}

\* build_ffmpeg_command has run
CommandBuilt == encoder_calls > 0

LastFrame == keyframes[Len(keyframes)].frame

TravelKeyframe(i) == keyframes[2 * i + 1]

HoldKeyframe(i) == keyframes[2 * i + 2]

\* Sum over the targets of travel + max(hold floor, narration), in ms
RECURSIVE SumSegments(_)
SumSegments(targets) ==
    IF targets = << >> THEN 0
    ELSE snippet_duration + Max(hold_duration, Head(targets).audio_duration)
         + SumSegments(Tail(targets))

\* Seconds by which the stated sum exceeds the reported total duration
Shortfall(ms) ==
    RatSub(Rat(ms, MsPerSecond), GetTotalDuration(keyframes, fps))

C2_AsStated ==
    KeyframesBuilt =>
        \A i \in 1..Len(snippets) :
            Rat(HoldKeyframe(i).frame - TravelKeyframe(i).frame, fps)
              = Rat(Max(snippets[i].audio_duration, hold_duration),
                    MsPerSecond)

\* C3 as stated: for every snippet with narration, the audio start time (the
\* adelay, whole milliseconds) equals the time of the snippet's travel
\* keyframe, the start of its hold segment.
C3_AsStated ==
    CommandBuilt =>
        \A k \in 1..Len(cmd.audio) :
            cmd.audio[k].delay_ms
              = (TravelKeyframe(cmd.audio[k].snippet).frame * MsPerSecond)
                \div fps

\* The two keyframes of snippet i carry the zoom and the center of snippet i
PairOfOwnTarget(i) ==
    LET s == snippets[i]
        OfTarget(kf) ==
            /\ kf.zoom = CalculateZoomForSnippet(s, Self)
            /\ 2 * (kf.center_x - s.x) \in {s.width - 1, s.width}
            /\ 2 * (kf.center_y - s.y) \in {s.height - 1, s.height}
    IN  OfTarget(TravelKeyframe(i)) /\ OfTarget(HoldKeyframe(i))

Overview(kf) ==
    /\ kf.zoom = Rat(1, 1)
    /\ 2 * kf.center_x \in {image_width - 1, image_width}
    /\ 2 * kf.center_y \in {image_height - 1, image_height}

\* C5: the keyframe frames are non-decreasing, and the first and the last
\* keyframe both have zoom 1.0 and the image center as center.
C5_Timeline ==
    KeyframesBuilt =>
        /\ \A i \in 1..(Len(keyframes) - 1) :
               keyframes[i].frame <= keyframes[i + 1].frame
        /\ Overview(keyframes[1])
        /\ Overview(keyframes[Len(keyframes)])

C5_Witness ==
    /\ KeyframesBuilt
    /\ Len(snippets) = 2
    /\ image_width % 2 = 1
    /\ keyframes[1].frame < keyframes[2].frame
    /\ TravelKeyframe(1).frame < HoldKeyframe(1).frame
    /\ TravelKeyframe(2).zoom # Rat(1, 1)

ValidRegion(s) == s.width > 0 /\ s.height > 0

InZoomRange(z) == RatLeq(min_zoom, z) /\ RatLeq(z, max_zoom)

\* C6: for every region with width > 0 and height > 0 and every configured
\* min_zoom <= max_zoom, the zoom computed for the region lies in
\* [min_zoom, max_zoom].
C6_ZoomToFit ==
    (KeyframesBuilt /\ RatLeq(min_zoom, max_zoom)) =>
        \A i \in 1..Len(snippets) :
            ValidRegion(snippets[i]) => InZoomRange(TravelKeyframe(i).zoom)

C6_Witness ==
    /\ KeyframesBuilt
    /\ RatLess(min_zoom, max_zoom)
    /\ \E i \in 1..Len(snippets) :
         /\ ValidRegion(snippets[i])
         /\ TravelKeyframe(i).zoom = max_zoom
    /\ \E i \in 1..Len(snippets) :
         /\ ValidRegion(snippets[i])
         /\ RatLess(min_zoom, TravelKeyframe(i).zoom)
         /\ RatLess(TravelKeyframe(i).zoom, max_zoom)

AllZoomsInRange ==
    /\ \A i \in 1..Len(keyframes) : InZoomRange(keyframes[i].zoom)
    /\ \A on \in 0..LastFrame : InZoomRange(ZoomExpression(keyframes, on))

\* C7 as stated: every keyframe and every interpolated zoom at any frame
\* between 0 and the last frame lies in [min_zoom, max_zoom], for every
\* configured min_zoom and max_zoom (with min_zoom <= max_zoom; regions of
\* positive width and height).
C7_AsStated ==
    (/\ pc = "ready"
     /\ RatLeq(min_zoom, max_zoom)
     /\ \A i \in 1..Len(snippets) : ValidRegion(snippets[i]))
        => AllZoomsInRange

\* C7 amended: the intro, intro-end and outro keyframes always have zoom 1.0
\* whatever range is configured; when min_zoom <= 1.0 <= max_zoom, every
\* keyframe and every interpolated zoom at any frame between 0 and the last
\* frame lies in [min_zoom, max_zoom].  (The keyframes never change after
\* construction, so the state right after it stands for all later ones.)
C7_ZoomClamped ==
    (pc = "ready" /\ RatLeq(min_zoom, Rat(1, 1)) /\ RatLeq(Rat(1, 1), max_zoom))
        => AllZoomsInRange

C7_Witness ==
    /\ pc = "ready"
    /\ RatLeq(min_zoom, Rat(1, 1))
    /\ RatLeq(Rat(1, 1), max_zoom)
    /\ \E on \in 0..LastFrame :
         \A i \in 1..Len(keyframes) :
             ZoomExpression(keyframes, on) # keyframes[i].zoom

\* C8 as stated: a region whose width or height is <= 0 is rejected with
\* InvalidRegion when its zoom is computed; no keyframes are produced from
\* it, and no other failure and no silently clamped zoom results.
C8_AsStated ==
    (pc # "init" /\ \E i \in 1..Len(args.snippets) :
                       ~ValidRegion(args.snippets[i]))
        => (error = "InvalidRegion" /\ keyframes = << >>)

\* C9: with zero snippets generation refuses to proceed: it returns a failure
\* and never starts the encoder, also when the sub-image list is non-empty.
C9_EmptyRefused ==
    (args.snippets = << >>) =>
        /\ encoder_calls = 0
        /\ cmd = NoCommand
        /\ pc \notin {"encoding", "raised"}
        /\ (pc = "done" => ~result.success)

C9_Witness ==
    /\ args.snippets = << >>
    /\ args.sub_images # << >>
    /\ pc = "done"
    /\ ~result.success

ExampleArgs ==
    Args(DefaultFps, DefaultIntroMs, DefaultSnippetMs, DefaultHoldMs,
         DefaultOutroMs, DefaultMinZoom, DefaultMaxZoom, FALSE, TRUE,
         << Narrated(ExampleRegion, 4000) >>, << >>, Probe(FALSE, 0, 0))

\* C10: for the 1920x1080 image with one snippet {100,100,200,150}, narration
\* 4.0 s, hold floor 1.0, travel 3.0, intro = outro = 2.0, the snippet
\* keyframes have zoom 4.0, the total duration is 11.0 s and the narration
\* starts at 5.0 s.
C10_Example ==
    (args = ExampleArgs /\ CommandBuilt) =>
        /\ image_width = 1920 /\ image_height = 1080
        /\ TravelKeyframe(1).zoom = Rat(4, 1)
        /\ HoldKeyframe(1).zoom = Rat(4, 1)
        /\ GetTotalDuration(keyframes, fps) = Rat(11, 1)
        /\ Len(cmd.audio) = 1
        /\ cmd.audio[1].delay_ms = 5000

C10_Witness ==
    /\ args = ExampleArgs
    /\ pc = "done"
    /\ result.success

\* The timeline the same arguments give with ken_burns enabled
KenBurnsTwin == CalculateKeyframes(InitFields([args EXCEPT !.ken_burns = TRUE]))

\* Every hold segment lasts at least the hold floor: frames / fps >= floor
HoldsReachFloor ==
    \A i \in 1..Len(snippets) :
        RatLeq(Rat(hold_duration, MsPerSecond),
               Rat(HoldKeyframe(i).frame - TravelKeyframe(i).frame, fps))

\* C11 as stated: with ken_burns disabled the intro, travel and outro
\* durations are 0 whatever was passed, the timeline has as many keyframes
\* (and holds) as with ken_burns enabled for the same snippets, and every
\* hold segment still lasts at least the hold floor.
C11_AsStated ==
    (KeyframesBuilt /\ ~ken_burns) =>
        /\ intro_duration = 0 /\ snippet_duration = 0 /\ outro_duration = 0
        /\ Len(keyframes) = Len(KenBurnsTwin)
        /\ HoldsReachFloor

\* The part of C11 that does not depend on the truncation of holds to whole
\* frames (kept as a regression check of the model, not as a claim)
StaticModeShape ==
    (KeyframesBuilt /\ ~ken_burns) =>
        /\ intro_duration = 0 /\ snippet_duration = 0 /\ outro_duration = 0
        /\ Len(keyframes) = Len(KenBurnsTwin)
        /\ keyframes[1].frame = keyframes[2].frame
        /\ \A i \in 1..Len(snippets) :
               TravelKeyframe(i).frame = keyframes[2 * i].frame

\* The constructor has just returned.  The keyframes never change afterwards,
\* so what holds of the expressions in this state holds in all later ones.
TimelineReady == pc = "ready"

\* The camera state the three expressions give at output frame on
CameraAt(on) ==
    [zoom |-> ZoomExpression(keyframes, on),
     center_x |-> CenterParts(keyframes, 1, on, "center_x"),
     center_y |-> CenterParts(keyframes, 1, on, "center_y")]

\* The camera state a keyframe stands for
StateOf(kf) ==
    [zoom |-> kf.zoom, center_x |-> Rat(kf.center_x, 1),
     center_y |-> Rat(kf.center_y, 1)]

\* C12 as stated: for every timeline, zero-length intro, travel and outro
\* segments included, the interpolated camera state at the first keyframe's
\* time equals the first keyframe's state and at the last keyframe's time
\* equals the last keyframe's state.
C12_AsStated ==
    TimelineReady =>
        /\ CameraAt(0) = StateOf(keyframes[1])
        /\ CameraAt(LastFrame) = StateOf(keyframes[Len(keyframes)])

\* The last keyframe placed at frame 0 and the first one placed at the last
\* frame
LastAtStart ==
    keyframes[CHOOSE i \in 1..Len(keyframes) :
                  /\ keyframes[i].frame = 0
                  /\ \A j \in (i + 1)..Len(keyframes) : keyframes[j].frame > 0]

FirstAtEnd ==
    keyframes[CHOOSE i \in 1..Len(keyframes) :
                  /\ keyframes[i].frame = LastFrame
                  /\ \A j \in 1..(i - 1) : keyframes[j].frame < LastFrame]

\* C12 amended: at frame 0 the interpolated state is that of the last
\* keyframe placed at frame 0, and at the last frame that of the first
\* keyframe placed there.  So it is the first keyframe's state when the intro
\* or the first travel lasts at least one frame, and the last keyframe's
\* state when the outro lasts at least one frame; with zero-length intro and
\* travel the camera starts on the first snippet, with a zero-length outro it
\* ends on the last snippet.
C12_EndStates ==
    TimelineReady =>
        /\ CameraAt(0) = StateOf(LastAtStart)
        /\ CameraAt(LastFrame) = StateOf(FirstAtEnd)
        /\ keyframes[3].frame > 0 => CameraAt(0) = StateOf(keyframes[1])
        /\ keyframes[Len(keyframes) - 1].frame < LastFrame
              => CameraAt(LastFrame) = StateOf(keyframes[Len(keyframes)])

C12_Witness ==
    /\ KeyframesBuilt
    /\ Len(snippets) = 2
    /\ keyframes[3].frame = 0
    /\ CameraAt(0) = StateOf(TravelKeyframe(1))
    /\ CameraAt(0) # StateOf(keyframes[1])
    /\ keyframes[Len(keyframes) - 1].frame < LastFrame
    /\ CameraAt(LastFrame) # StateOf(HoldKeyframe(2))

\* The value one part of the chain gives at progress p between two keyframe
\* states: start + (end - start) * eased(p), for zoom and both centers
SegmentState(kf1, kf2, p) ==
    LET Lerp(a, b) == RatAdd(a, RatMul(RatSub(b, a), EaseInOut(p)))
    IN  [zoom |-> Lerp(kf1.zoom, kf2.zoom),
         center_x |-> Lerp(Rat(kf1.center_x, 1), Rat(kf2.center_x, 1)),
         center_y |-> Lerp(Rat(kf1.center_y, 1), Rat(kf2.center_y, 1))]

\* Keyframes i+1 is shared by two consecutive segments of positive length
SharedBoundary(i) ==
    /\ keyframes[i].frame < keyframes[i + 1].frame
    /\ keyframes[i + 1].frame < keyframes[i + 2].frame

\* C13: at a frame shared by two consecutive positive-length segments the
\* interpolated zoom and center do not jump: the first segment at progress 1
\* and the next segment at progress 0 give the same values, those of the
\* shared keyframe, and they are what the expressions return at that frame.
C13_NoJump ==
    TimelineReady =>
        \A i \in 1..(Len(keyframes) - 2) :
            SharedBoundary(i) =>
                /\ SegmentState(keyframes[i], keyframes[i + 1], Rat(1, 1))
                     = StateOf(keyframes[i + 1])
                /\ SegmentState(keyframes[i + 1], keyframes[i + 2], Rat(0, 1))
                     = StateOf(keyframes[i + 1])
                /\ CameraAt(keyframes[i + 1].frame) = StateOf(keyframes[i + 1])

C13_Witness ==
    /\ KeyframesBuilt
    /\ \A i \in 1..(Len(keyframes) - 2) : SharedBoundary(i)
    /\ Len(snippets) = 2
    /\ StateOf(keyframes[3]) # StateOf(keyframes[2])
    /\ keyframes[3].center_x # keyframes[2].center_x
    /\ StateOf(keyframes[5]) # StateOf(keyframes[4])

InUnit(r) == RatLeq(Rat(0, 1), r) /\ RatLeq(r, Rat(1, 1))

\* Over the frames of the i-th segment the eased progress starts at 0, ends
\* at 1 and never decreases from one frame to the next
EasedRises(i) ==
    LET first == keyframes[i].frame
        last == keyframes[i + 1].frame
        Eased(on) == EaseInOut(Progress(keyframes, i, on))
    IN  /\ Eased(first) = Rat(0, 1)
        /\ Eased(last) = Rat(1, 1)
        /\ \A on \in first..(last - 1) : RatLeq(Eased(on), Eased(on + 1))

\* C14: the smoothstep easing has eased(0) = 0 and eased(1) = 1 and never
\* decreases on [0,1] (compared here frame by frame along every segment of
\* at most MaxEasedFrames frames); and at every frame of the video the
\* progress fed to it by the selected segment lies in [0,1].
C14_Smoothstep ==
    TimelineReady =>
        /\ \A i \in 1..(Len(keyframes) - 1) :
               LET frame_diff == keyframes[i + 1].frame - keyframes[i].frame
               IN  (0 < frame_diff /\ frame_diff <= MaxEasedFrames)
                       => EasedRises(i)
        /\ \A on \in 0..LastFrame :
               LET i == SelectedPart(keyframes, 1, on)
               IN  i # 0 => InUnit(Progress(keyframes, i, on))

C14_Witness ==
    /\ TimelineReady
    /\ \E i \in 1..(Len(keyframes) - 1) :
         /\ keyframes[i + 1].frame - keyframes[i].frame
              \in DefaultFps..MaxEasedFrames
         /\ EasedRises(i)
    /\ \E on \in 0..LastFrame :
         LET i == SelectedPart(keyframes, 1, on)
         IN  /\ i > 1
             /\ RatLess(Rat(0, 1), Progress(keyframes, i, on))
             /\ RatLess(Progress(keyframes, i, on), Rat(1, 1))

\* The visible rectangle at output frame on, from the x, y and z expressions:
\* left, top, and the visible width and height iw/zoom, ih/zoom
VisibleRect(on) ==
    LET zoom == ZoomExpression(keyframes, on)
    IN  [left |-> XExpression(keyframes, on, image_width),
         top |-> YExpression(keyframes, on, image_height),
         width |-> Rat(image_width * zoom.d, zoom.n),
         height |-> Rat(image_height * zoom.d, zoom.n)]

Contained(rect) ==
    /\ RatLeq(Rat(0, 1), rect.left)
    /\ RatLeq(Rat(0, 1), rect.top)
    /\ RatLeq(RatAdd(rect.left, rect.width), Rat(image_width, 1))
    /\ RatLeq(RatAdd(rect.top, rect.height), Rat(image_height, 1))

\* The frames at which the rectangle is evaluated: all of them at the small
\* frame rates, the keyframes' own frames at the default rate
SampledFrames ==
    IF fps <= MaxFps THEN 0..LastFrame
    ELSE { keyframes[i].frame : i \in 1..Len(keyframes) }

\* C15 as stated: at every frame the visible rectangle (left = center_x -
\* (image_w/zoom)/2, top = center_y - (image_h/zoom)/2, size image_w/zoom by
\* image_h/zoom) is fully contained in [0,image_w] x [0,image_h], also for
\* snippets lying at the image edge (regions of positive width and height,
\* 1 <= min_zoom <= max_zoom).
C15_AsStated ==
    (/\ TimelineReady
     /\ RatLeq(Rat(1, 1), min_zoom) /\ RatLeq(min_zoom, max_zoom)
     /\ \A i \in 1..Len(snippets) : ValidRegion(snippets[i]))
        => \A on \in SampledFrames : Contained(VisibleRect(on))

\* The overview keyframes themselves are contained (a check of the model,
\* not a claim): at zoom 1.0 and an even image size the rectangle is the
\* whole image
OverviewContained ==
    (TimelineReady /\ image_width % 2 = 0 /\ image_height % 2 = 0)
        => /\ LastAtStart = keyframes[1] => Contained(VisibleRect(0))
           /\ VisibleRect(LastFrame).width = Rat(image_width, 1)
                  => VisibleRect(LastFrame).left = Rat(0, 1)

\* The targets (positions in a list of snippets or sub-images) whose
\* narration file is given and exists
WithNarration(targets) ==
    { i \in 1..Len(targets) : targets[i].audio_path = "exists" }

\* The labels of the targets in T, in increasing order of position
RECURSIVE LabelsInOrder(_, _)
LabelsInOrder(prefix, T) ==
    IF T = {} THEN << >>
    ELSE LET i == CHOOSE m \in T : \A k \in T : m <= k
         IN  << <<prefix, i - 1>> >> \o LabelsInOrder(prefix, T \ {i})

\* C16: a target without narration (no path, or a path to a file that does
\* not exist) has no entry in the audio schedule: the clips mixed are exactly
\* those of the snippets and sub-images with an existing narration file,
\* snippets first and sub-images after them, each in input order; with none
\* there is no amix and no audio stream is mapped.
C16_AudioSchedule ==
    CommandBuilt =>
        /\ Len(cmd.all_audio_labels)
             = Cardinality(WithNarration(snippets))
               + Cardinality(WithNarration(sub_images))
        /\ cmd.all_audio_labels
             = LabelsInOrder("a", WithNarration(snippets))
               \o LabelsInOrder("sa", WithNarration(sub_images))
        /\ Len(cmd.audio) + Len(cmd.sub_image_audio)
             = Len(cmd.all_audio_labels)
        /\ cmd.amix_inputs = Len(cmd.all_audio_labels)
        /\ (\E k \in 1..Len(cmd.maps) : cmd.maps[k] = "outa")
             <=> cmd.all_audio_labels # << >>

C16_Witness ==
    /\ CommandBuilt
    /\ Len(snippets) = 2
    /\ snippets[1].audio_path = "missing"
    /\ snippets[2].audio_path = "exists"
    /\ Len(sub_images) = 1
    /\ sub_images[1].audio_path = "exists"
    /\ cmd.all_audio_labels = << <<"a", 1>>, <<"sa", 0>> >>
    /\ cmd.maps = <<"outv", "outa">>

\* The call was made by the worker thread
ViaWorker == worker_snippets # << >>

\* The snippets the audio schedule of the command has an entry for
Scheduled == { cmd.audio[k].snippet : k \in 1..Len(cmd.audio) }

\* The snippets whose narration request is in the log with one of the
\* given outcomes
Requested(kinds) ==
    { tts_log[k].snippet :
        k \in { m \in 1..Len(tts_log) : tts_log[m].outcome \in kinds } }

SynthesisFailed == Requested({"failed", "failed, file left", "raised"})

SynthesisSucceeded == Requested({"saved"})

\* C17 as stated: when narration synthesis fails for a snippet, or its
\* narration file is missing when the command is built, the render still
\* proceeds (the command is built and the encoder started), that snippet has
\* no audio entry, and every other snippet that has narration keeps its
\* entry.
C17_AsStated ==
    /\ (ViaWorker /\ pc \in {"encoding", "done", "finished"}) =>
           /\ encoder_calls = 1
           /\ Scheduled \cap SynthesisFailed = {}
           /\ SynthesisSucceeded \subseteq Scheduled
    /\ (~ViaWorker /\ CommandBuilt) =>
           \A i \in 1..Len(snippets) :
               /\ snippets[i].audio_path = "missing" => i \notin Scheduled
               /\ snippets[i].audio_path = "exists" => i \in Scheduled

\* What the code does guarantee (a check of the model, not a claim): a
\* snippet has an audio entry exactly when generate_audio reported success,
\* i.e. when the output file exists after the request, whether or not the
\* synthesis itself succeeded
EntryIffFileExists ==
    (ViaWorker /\ CommandBuilt) =>
        /\ Scheduled = Requested({"saved", "failed, file left"})
        /\ encoder_calls = 1

\* The snippets the worker has dealt with so far whose text is empty or
\* only whitespace
Silent ==
    { i \in 1..Len(snippets_with_audio) :
        \A k \in 1..Len(worker_snippets[i].text) :
            worker_snippets[i].text[k] \in Whitespace }

\* C19: for a snippet whose text is empty or only whitespace the narration
\* service is never called; the snippet gets no audio path and duration 0,
\* has no entry in the audio schedule, and its hold lasts the hold floor.
C19_SilentSnippet ==
    ViaWorker =>
        /\ \A k \in 1..Len(tts_log) :
               /\ tts_log[k].snippet \notin Silent
               /\ tts_log[k].text # << >>
               /\ tts_log[k].text[1] \notin Whitespace
        /\ \A i \in Silent :
               /\ snippets_with_audio[i].audio_path = "none"
               /\ snippets_with_audio[i].audio_duration = 0
               /\ KeyframesBuilt =>
                      /\ snippets[i].audio_path = "none"
                      /\ snippets[i].audio_duration = 0
                      /\ HoldKeyframe(i).frame - TravelKeyframe(i).frame
                           = IntOfProduct(DefaultHoldMs, fps)
                      /\ Rat(HoldKeyframe(i).frame - TravelKeyframe(i).frame,
                             fps) = Rat(hold_duration, MsPerSecond)
               /\ CommandBuilt => i \notin Scheduled

C19_Witness ==
    /\ ViaWorker
    /\ pc = "finished"
    /\ Len(worker_snippets) = 2
    /\ worker_snippets[1].text = <<" ">>
    /\ 1 \in Silent
    /\ Scheduled = {2}
    /\ Len(tts_log) = 1
    /\ tts_log[1].text = <<"h", "i">>

\* The encoder failed: it could not be started, it exited with a non-zero
\* return code, or waiting for it raised
EncoderFailed ==
    encoder_exit.status \in {"returncode 1", "FileNotFoundError", "Exception"}

\* C18: when the encoder fails, generate() returns a failure whose message
\* carries what the encoder reported (its stderr after "FFmpeg error: ", the
\* exception's text after "Error: ", the fixed not-found message for a
\* missing binary); the call ends there, the worker hands exactly that
\* outcome to its caller with the finished signal, and the encoder is
\* started at most once per generate call.
C18_EncoderFailure ==
    /\ encoder_calls <= 1
    /\ EncoderFailed =>
           /\ pc \in {"done", "finished"}
           /\ encoder_calls = 1
           /\ ~result.success
           /\ encoder_exit.status = "returncode 1"
                 => result.message = <<"FFmpeg error: ", encoder_exit.diagnostic>>
           /\ encoder_exit.status = "Exception"
                 => result.message = <<"Error: ", encoder_exit.diagnostic>>
           /\ encoder_exit.status = "FileNotFoundError"
                 => result.message = NotFoundMessage
           /\ encoder_exit.status # "FileNotFoundError"
                 => result.message[2] \in Diagnostics
           /\ pc = "finished" => finished_signals = << result >>
           /\ (pc = "done" /\ ViaWorker) => finished_signals = << >>

C18_Witness ==
    /\ pc = "finished"
    /\ encoder_exit.status = "returncode 1"
    /\ encoder_calls = 1
    /\ Len(finished_signals) = 1
    /\ ~finished_signals[1].success
    /\ finished_signals[1].message
         = <<"FFmpeg error: ", "Invalid data found when processing input">>

\* The i-th keyframe pair is a zero-length segment
ZeroLength(i) == keyframes[i].frame = keyframes[i + 1].frame

\* The first and the last keyframe placed at frame f
FirstAt(f) ==
    CHOOSE i \in 1..Len(keyframes) :
        /\ keyframes[i].frame = f
        /\ \A j \in 1..(i - 1) : keyframes[j].frame < f

LastAt(f) ==
    CHOOSE i \in 1..Len(keyframes) :
        /\ keyframes[i].frame = f
        /\ \A j \in (i + 1)..Len(keyframes) : keyframes[j].frame > f

\* The part selected at any frame has a non-zero frame difference, and at
\* the frames of the keyframes the expressions return what that part
\* interpolates (the last keyframe's state when no part is selected)
NoZeroDivisor ==
    /\ \A on \in 0..LastFrame :
           LET i == SelectedPart(keyframes, 1, on)
           IN  i # 0 => keyframes[i + 1].frame - keyframes[i].frame > 0
    /\ \A k \in 1..Len(keyframes) :
           LET on == keyframes[k].frame
               i == SelectedPart(keyframes, 1, on)
           IN  CameraAt(on)
                 = IF i = 0 THEN StateOf(keyframes[Len(keyframes)])
                   ELSE SegmentState(keyframes[i], keyframes[i + 1],
                                     Progress(keyframes, i, on))

\* C20 as stated: for every timeline, also one whose intro, travel and outro
\* segments all have length 0, no interpolation term divides by a zero frame
\* difference, and at the time of a zero-length segment the camera state
\* returned is that of the segment's second keyframe (of the last such
\* segment where several are placed at the same frame).
C20_AsStated ==
    TimelineReady =>
        /\ NoZeroDivisor
        /\ \A i \in 1..(Len(keyframes) - 1) :
               (ZeroLength(i) /\ LastAt(keyframes[i].frame) = i + 1) =>
                   CameraAt(keyframes[i].frame) = StateOf(keyframes[i + 1])

\* C20 amended: zero-length segments contribute no term, so no term divides
\* by zero.  At the frame of a zero-length segment the state returned is the
\* one a positive-length segment ending there arrives at, i.e. that of the
\* first keyframe placed at that frame (the state before the jump), unless
\* that keyframe is one of the two intro keyframes; then, and when no such
\* segment ends there, it is the state of the last keyframe placed at that
\* frame.
C20_ZeroLength ==
    TimelineReady =>
        /\ NoZeroDivisor
        /\ \A i \in 1..(Len(keyframes) - 1) :
               ZeroLength(i) =>
                   LET f == keyframes[i].frame
                   IN  CameraAt(f) = IF FirstAt(f) >= 3
                                     THEN StateOf(keyframes[FirstAt(f)])
                                     ELSE StateOf(keyframes[LastAt(f)])

C20_Witness ==
    /\ TimelineReady
    /\ ~ken_burns
    /\ Len(snippets) = 2
    /\ ZeroLength(1) /\ ZeroLength(2) /\ ZeroLength(4) /\ ZeroLength(6)
    /\ ~ZeroLength(3) /\ ~ZeroLength(5)
    /\ CameraAt(0) = StateOf(keyframes[3])
    /\ CameraAt(keyframes[4].frame) = StateOf(keyframes[4])
    /\ CameraAt(keyframes[4].frame) # StateOf(keyframes[5])
    /\ CameraAt(LastFrame) # StateOf(keyframes[7])

----------------------------------------------------------------------------
(* Frames after the last keyframe *)

\* How many frames after the last keyframe the expressions are evaluated at
MaxBeyond == 3

FramesBeyond == (LastFrame + 1)..(LastFrame + MaxBeyond)

\* C21: at every frame after the last keyframe the zoom and the center the
\* expressions give are those of the last keyframe: no part of the chain is
\* selected there, so the last segment is not extrapolated.
C21_BeyondLast ==
    TimelineReady =>
        \A on \in FramesBeyond :
            /\ SelectedPart(keyframes, 1, on) = 0
            /\ CameraAt(on) = StateOf(keyframes[Len(keyframes)])

\* A timeline whose last segment (the outro) has a positive length and
\* changes the zoom, evaluated after its end
C21_Witness ==
    /\ TimelineReady
    /\ Len(keyframes) >= 2
    /\ keyframes[Len(keyframes) - 1].frame < LastFrame
    /\ keyframes[Len(keyframes) - 1].zoom # keyframes[Len(keyframes)].zoom
    /\ CameraAt(LastFrame + MaxBeyond) = StateOf(keyframes[Len(keyframes)])
    /\ CameraAt(LastFrame - 1) # StateOf(keyframes[Len(keyframes)])

----------------------------------------------------------------------------
(* The box overlay and the sub-image overlays *)

\* The command has just been built and the encoder started.  The command
\* never changes afterwards.
CommandReady == pc = "encoding"

\* max(narration_i, hold floor), in ms
HoldMs(i) == Max(snippets[i].audio_duration, hold_duration)

\* hold_start_i = intro + sum over j < i of (travel + hold_j) + travel and
\* hold_end_i = hold_start_i + hold_i, in ms
RECURSIVE WindowStartMs(_)
WindowStartMs(i) ==
    IF i = 1 THEN intro_duration + snippet_duration
    ELSE WindowStartMs(i - 1) + HoldMs(i - 1) + snippet_duration

WindowEndMs(i) == WindowStartMs(i) + HoldMs(i)

\* between(t, a, b) of an enable option, with a and b in hundredths of a
\* second, at the time t = n / fps of output frame n
EnabledAt(enable, n) ==
    enable[1] * fps <= n * 100 /\ n * 100 <= enable[2] * fps

\* The time of output frame n lies in the activation window of snippet i
InWindowAt(i, n) ==
    WindowStartMs(i) * fps <= n * MsPerSecond
    /\ n * MsPerSecond <= WindowEndMs(i) * fps

\* C22 as stated: with the box overlay on, snippet i's outline is enabled at
\* exactly the frame times that lie in its activation window [hold_start_i,
\* hold_end_i]; with the overlay off no outline filter is produced.
C22_AsStated ==
    CommandReady =>
        IF show_boxes
        THEN /\ Len(cmd.drawbox) = Len(snippets)
             /\ \A i \in 1..Len(snippets) :
                    /\ cmd.drawbox[i].snippet = i
                    /\ \A n \in 0..cmd.total_frames :
                           EnabledAt(cmd.drawbox[i].enable, n)
                             <=> InWindowAt(i, n)
        ELSE cmd.drawbox = << >>

\* What the code does (not a claim on its own): the two times of the enable
\* option are the window's ends rounded to hundredths of a second, one
\* filter per snippet, and none with the overlay off
DrawboxRounded ==
    CommandReady =>
        IF show_boxes
        THEN /\ Len(cmd.drawbox) = Len(snippets)
             /\ \A i \in 1..Len(snippets) :
                    /\ cmd.drawbox[i].snippet = i
                    /\ cmd.drawbox[i].enable
                         = <<Format2f(Seconds(WindowStartMs(i))),
                             Format2f(Seconds(WindowEndMs(i)))>>
        ELSE cmd.drawbox = << >>


\* The overlay filters of the sub-images that are persistent and follow a
\* snippet that exists
PersistentOverlays ==
    { k \in 1..Len(cmd.sub_image_overlays) :
        LET sub_img == sub_images[cmd.sub_image_overlays[k].sub_image]
        IN  /\ sub_img.persistent
            /\ sub_img.after_snip \in 0..(Len(snippets) - 1) }

\* C23 as stated: the enable window of a persistent overlay starts at the
\* end of the hold of the snippet it follows and ends at the video's total
\* duration, and its start is not after its end, also with ken-burns
\* disabled.
C23_AsStated ==
    CommandReady =>
        \A k \in PersistentOverlays :
            LET ov == cmd.sub_image_overlays[k]
                after_snip == sub_images[ov.sub_image].after_snip
            IN  /\ ov.start = Seconds(WindowEndMs(after_snip + 1))
                /\ ov.end = GetTotalDuration(keyframes, fps)
                /\ ov.enable = <<Format2f(ov.start), Format2f(ov.end)>>
                /\ ov.enable[1] <= ov.enable[2]

\* What the code does (not a claim on its own): the window of a persistent
\* overlay runs from the end of the hold, on the clock that adds the
\* durations in seconds, to the duration the frame count gives
PersistentWindow ==
    CommandReady =>
        \A k \in PersistentOverlays :
            LET ov == cmd.sub_image_overlays[k]
                after_snip == sub_images[ov.sub_image].after_snip
            IN  /\ ov.start = Seconds(WindowEndMs(after_snip + 1))
                /\ ov.end = GetTotalDuration(keyframes, fps)
                /\ ov.enable = <<Format2f(ov.start), Format2f(ov.end)>>


----------------------------------------------------------------------------
(* The inputs of the command *)

\* The file given as input number idx (input 0 is the first -i)
InputAt(idx) == cmd.inputs[idx + 1]

\* C24: in the command built, input 0 is the source image; the k-th audio
\* clip accepted (those of the snippets first, then those of the sub-images)
\* is referenced as input k and that input is the clip's own file; the j-th
\* sub-image accepted is referenced as input (number of audio inputs + j)
\* and that input is its own image; and amix is given as many inputs as
\* there are audio labels.
C24_InputIndices ==
    CommandReady =>
        LET audio_count == Len(cmd.audio) + Len(cmd.sub_image_audio)
        IN  /\ Len(cmd.inputs)
                 = 1 + audio_count + Len(cmd.sub_image_overlays)
            /\ InputAt(0) = <<"self", 0, "image_path">>
            /\ \A k \in 1..Len(cmd.audio) :
                   /\ cmd.audio[k].input_idx = k
                   /\ InputAt(k)
                        = <<"snippets", cmd.audio[k].snippet, "audio_path">>
                   /\ snippets[cmd.audio[k].snippet].audio_path = "exists"
            /\ \A k \in 1..Len(cmd.sub_image_audio) :
                   LET entry == cmd.sub_image_audio[k]
                   IN  /\ entry.input_idx = Len(cmd.audio) + k
                       /\ InputAt(entry.input_idx)
                            = <<"sub_images", entry.sub_image, "audio_path">>
                       /\ sub_images[entry.sub_image].audio_path = "exists"
            /\ \A j \in 1..Len(cmd.sub_image_overlays) :
                   LET ov == cmd.sub_image_overlays[j]
                   IN  /\ ov.input_idx = audio_count + j
                       /\ InputAt(ov.input_idx)
                            = <<"sub_images", ov.sub_image, "image_path">>
                       /\ sub_images[ov.sub_image].image_path = "exists"
            /\ cmd.amix_inputs = Len(cmd.all_audio_labels)
            /\ Len(cmd.all_audio_labels) = audio_count

\* Two snippets of which the first has no file, and two sub-images of which
\* the first has its narration but not its image: the second snippet's clip
\* is input 1, the sub-image's clip input 2, the second sub-image input 3
C24_Witness ==
    /\ CommandReady
    /\ Len(snippets) = 2 /\ Len(sub_images) = 2
    /\ snippets[1].audio_path = "missing"
    /\ sub_images[1].image_path = "missing"
    /\ cmd.inputs = << <<"self", 0, "image_path">>,
                       <<"snippets", 2, "audio_path">>,
                       <<"sub_images", 1, "audio_path">>,
                       <<"sub_images", 2, "image_path">> >>
    /\ cmd.audio[1].input_idx = 1
    /\ cmd.sub_image_audio[1].input_idx = 2
    /\ cmd.sub_image_overlays[1].input_idx = 3
    /\ cmd.amix_inputs = 2


----------------------------------------------------------------------------
(* Narration and the output duration *)

\* A clip delayed by delay_ms that lasts duration ms ends no later than the
\* duration total_frames / fps given with -t
EndsInTime(delay_ms, duration) ==
    (delay_ms + duration) * fps <= cmd.total_frames * MsPerSecond

\* C25 as stated: every scheduled clip, of a snippet or of a sub-image, ends
\* no later than the output duration: start + clip duration <= last keyframe
\* frame / fps.
C25_AsStated ==
    CommandReady =>
        /\ \A k \in 1..Len(cmd.audio) :
               EndsInTime(cmd.audio[k].delay_ms,
                          snippets[cmd.audio[k].snippet].audio_duration)
        /\ \A k \in 1..Len(cmd.sub_image_audio) :
               EndsInTime(cmd.sub_image_audio[k].delay_ms,
                          sub_images[cmd.sub_image_audio[k].sub_image]
                              .audio_duration)

\* The same for the narration of the snippets alone (not a claim on its
\* own): the frame truncation breaks it when no outro follows
SnippetClipsEndInTime ==
    CommandReady =>
        \A k \in 1..Len(cmd.audio) :
            EndsInTime(cmd.audio[k].delay_ms,
                       snippets[cmd.audio[k].snippet].audio_duration)

\* The same for the narration of the sub-images alone (not a claim on its
\* own): nothing in the timeline makes room for these clips
SubImageClipsEndInTime ==
    CommandReady =>
        \A k \in 1..Len(cmd.sub_image_audio) :
            EndsInTime(cmd.sub_image_audio[k].delay_ms,
                       sub_images[cmd.sub_image_audio[k].sub_image]
                           .audio_duration)


----------------------------------------------------------------------------
(* One outline at a time *)

\* The enable windows of two drawbox filters have a time in common
Overlap(a, b) == a.enable[1] <= b.enable[2] /\ b.enable[1] <= a.enable[2]

\* C26 as stated: with the box overlay on, the enable windows of different
\* snippets never share a time point, for every travel duration, 0 (ken-burns
\* disabled) included.
C26_AsStated ==
    (CommandReady /\ show_boxes) =>
        \A i, j \in 1..Len(cmd.drawbox) :
            i # j => ~Overlap(cmd.drawbox[i], cmd.drawbox[j])

\* C26 amended: the windows follow one another in the order of the snippets,
\* each window ending no later than the next one starts, so two windows
\* share at most the one instant at which the earlier ends and the later
\* starts; they share that instant exactly when nothing lies between them,
\* which for consecutive snippets is a travel duration of 0 (ken-burns
\* disabled), and they share no time point when the travel duration is at
\* least a hundredth of a second.
C26_WindowsInOrder ==
    (CommandReady /\ show_boxes) =>
        /\ \A i \in 1..Len(cmd.drawbox) :
               cmd.drawbox[i].enable[1] <= cmd.drawbox[i].enable[2]
        /\ \A i, j \in 1..Len(cmd.drawbox) :
               i < j => cmd.drawbox[i].enable[2] <= cmd.drawbox[j].enable[1]
        /\ \A i \in 1..(Len(cmd.drawbox) - 1) :
               /\ Overlap(cmd.drawbox[i], cmd.drawbox[i + 1])
                    <=> Format2f(Seconds(WindowEndMs(i)))
                          = Format2f(Seconds(WindowEndMs(i)
                                             + snippet_duration))
               /\ snippet_duration >= 10
                    => ~Overlap(cmd.drawbox[i], cmd.drawbox[i + 1])

\* Ken-burns disabled, two snippets: the first outline's window ends at the
\* instant the second one's starts
C26_Witness ==
    /\ CommandReady /\ show_boxes /\ ~ken_burns
    /\ Len(cmd.drawbox) = 2
    /\ cmd.drawbox[1].enable = <<0, 100>>
    /\ cmd.drawbox[2].enable = <<100, 200>>

----------------------------------------------------------------------------
(* The storyboard widgets and the canvas selection *)

\* C29 as stated: after any sequence of editor operations every
\* SnippetItemWidget's idx equals its position in MainWindow.snippet_widgets
\* (so that deleting through a widget removes that widget and its region)
C29_AsStated ==
    \A k \in 1..Len(snippet_widgets) : snippet_widgets[k].idx = k - 1

\* The snippet of the canvas that is selected, by identity
Selected == canvas_snippets[selected_snippet_idx + 1].id

SelectedValid ==
    \/ selected_snippet_idx = -1
    \/ 0 <= selected_snippet_idx /\ selected_snippet_idx < Len(canvas_snippets)

\* One snippet leaves the canvas and the selected one is not it
OtherDeleted ==
    /\ Len(canvas_snippets') = Len(canvas_snippets) - 1
    /\ selected_snippet_idx # -1
    /\ SelectedValid
    /\ \E k \in 1..Len(canvas_snippets') : canvas_snippets'[k].id = Selected

\* C30: after any sequence of creating, selecting, deleting and clearing
\* snippets, selected_snippet_idx is -1 or a valid index into
\* ImageCanvas.snippets, and deleting a snippet other than the selected one
\* leaves the same snippet selected
C30_Selection ==
    /\ []SelectedValid
    /\ [][OtherDeleted =>
            /\ 0 <= selected_snippet_idx'
            /\ selected_snippet_idx' < Len(canvas_snippets')
            /\ canvas_snippets'[selected_snippet_idx' + 1].id = Selected]_vars

\* The second of two regions is still selected after the first was deleted
\* and it moved down to index 0
C30_Witness ==
    /\ Len(canvas_snippets) = 1
    /\ canvas_snippets[1].id = 1
    /\ selected_snippet_idx = 0

----------------------------------------------------------------------------
(* Generation runs *)

\* The worker has been started and its result is not yet handled
WorkerPending == unhandled_workers > 0

\* The run has emitted finished once and the window has handled it
RunHandled == Len(finished_signals) = 1 /\ btn_generate_enabled

\* C27 as stated: every started generation run eventually emits the worker's
\* finished signal exactly once, whatever happens in narration synthesis,
\* timeline construction or encoding, and the Generate button, disabled at
\* start, is eventually re-enabled
C27_AsStated == (pc = "started") ~> RunHandled

\* The same for the runs in which no exception leaves run() (not a claim on
\* its own)
HandledUnlessRaised == (pc = "started") ~> (RunHandled \/ pc = "raised")

\* No run emits finished twice, and never before generate() has returned
FinishedAtMostOnce ==
    /\ Len(finished_signals) <= 1
    /\ Len(finished_signals) = 1 => pc \in {"finished", "idle"}

\* C28: at most one generation worker runs at a time: from the moment
\* generate_video starts a worker until on_video_finished handles its
\* result the Generate button is disabled and no second worker is created,
\* under any interleaving of user actions and worker steps
C28_OneWorker ==
    /\ unhandled_workers <= 1
    /\ WorkerPending => ~btn_generate_enabled
    /\ pc # "idle" => WorkerPending

\* A worker is encoding while the user has deleted one of the regions it
\* was started with and has left snip mode
C28_Witness ==
    /\ pc = "encoding"
    /\ WorkerPending
    /\ ~btn_generate_enabled
    /\ Len(canvas_snippets) < Len(worker_snippets)
    /\ ~snip_mode

====
